---- MODULE Spec2Model ----
(***************************************************************************)
(* State-machine model of pinai_agent_sdk/indexer.py: the BlockchainIndexer *)
(* (start / stop on the caller's thread, the _run_indexer worker loop, the  *)
(* dispatcher _process_event and the four event handlers), together with    *)
(* the chain client and the matching backend it talks to.                   *)
(***************************************************************************)
EXTENDS Integers, Sequences, FiniteSets, TLC

\* ----------------------------------------------------------------- bounds
\* Highest block height the chain reaches.
MaxHeight == 2
\* Number of log entries the contract emits over a run.
MaxLog == 2

\* Thread objects start() can create (threading.Thread instances).  A thread
\* that has finished is recycled for a later start(): its identity no longer
\* matters.  Two are enough for two workers to overlap.
Threads == {"t1", "t2"}

\* ------------------------------------------------------- values and bytes
\* Python's None, and an optional value, as sequences of length 0 and 1.
None == <<>>
Some(x) == <<x>>

HexDigits == <<"0", "1", "2", "3", "4", "5", "6", "7",
               "8", "9", "a", "b", "c", "d", "e", "f">>

\* A 32-byte big-endian word holding the small number n (a topic as the chain
\* client delivers it: HexBytes of length 32).
Word(n) ==
    [i \in 1..32 |-> IF i = 32 THEN n % 256
                     ELSE IF i = 31 THEN (n \div 256) % 256
                     ELSE 0]

\* HexBytes.hex(): "0x" followed by two hex digits per byte.
Hex(b) ==
    <<"0", "x">> \o
    [i \in 1..(2 * Len(b)) |->
        IF i % 2 = 1 THEN HexDigits[(b[(i + 1) \div 2] \div 16) + 1]
                     ELSE HexDigits[(b[i \div 2] % 16) + 1]]

\* The value of one hex digit character.
DigitValue(c) == (CHOOSE i \in 1..16 : HexDigits[i] = c) - 1

\* The number written by the hex digits s[from..to], the first the highest.
RECURSIVE HexValue(_, _, _)
HexValue(s, from, to) ==
    IF to < from THEN 0
    ELSE 16 * HexValue(s, from, to - 1) + DigitValue(s[to])

\* int(s, 16): an optional "0x" prefix, then hex digits.
IntOfHex(s) ==
    IF Len(s) >= 2 /\ s[1] = "0" /\ s[2] = "x"
    THEN HexValue(s, 3, Len(s))
    ELSE HexValue(s, 1, Len(s))

\* Python's s[-n:].
LastChars(s, n) == IF Len(s) <= n THEN s ELSE SubSeq(s, Len(s) - n + 1, Len(s))

\* The last n bytes of a byte string.
LowBytes(b, n) == SubSeq(b, Len(b) - n + 1, Len(b))

\* ------------------------------------------------------ event signatures
OrderCreated == "OrderCreated(uint256,address,uint8,uint256)"
OrderMatched == "OrderMatched(uint256,uint256,string)"
AddressesTracked == "AddressesTracked(uint256,address[])"
OrderCompleted == "OrderCompleted(uint256,uint256)"
\* An event of the contract the indexer has no handler for.
OtherEvent == "OrderCancelled(uint256)"

\* Web3.keccak(text=...): a 32-byte digest.  The hash itself is not computed;
\* it is modelled as an injective map from the signature strings to 32-byte
\* words that differ in their first byte.
Keccak(text) ==
    LET tag == CASE text = OrderCreated -> 161
                 [] text = OrderMatched -> 162
                 [] text = AddressesTracked -> 163
                 [] text = OrderCompleted -> 164
                 [] OTHER -> 165
    IN  [i \in 1..32 |-> IF i = 1 THEN tag ELSE i]

\* The dispatch table built by __init__ (lines 49-54).  Each key is the hex
\* digest of a signature string; the table is held keyed by that string, and
\* a lookup goes through the digest (KeyOf, HasKey, Lookup).
SignatureTable ==
    [k \in {OrderCreated, OrderMatched, AddressesTracked, OrderCompleted} |->
        CASE k = OrderCreated -> "_handle_order_created"
          [] k = OrderMatched -> "_handle_order_matched"
          [] k = AddressesTracked -> "_handle_addresses_tracked"
          [] OTHER -> "_handle_order_completed"]

\* Web3.keccak(text=k).hex() for the signature strings, computed once.
SignatureStrings ==
    {OrderCreated, OrderMatched, AddressesTracked, OrderCompleted, OtherEvent}
DigestHex == [k \in SignatureStrings |-> Hex(Keccak(k))]

\* event_signature in table, and table[event_signature].
HasKey(table, event_signature) ==
    \E k \in DOMAIN table : DigestHex[k] = event_signature
Lookup(table, event_signature) ==
    table[CHOOSE k \in DOMAIN table : DigestHex[k] = event_signature]

\* ------------------------------------------------------------ log entries
\* The log entries the contract emits in this model, by name.  Only the
\* topics are modelled: no handler reads the data payload.
EntryNames == {"Created", "CreatedShort", "Matched", "MatchedOther",
               "MatchedShort", "Completed", "CompletedShort", "Tracked",
               "TrackedBare", "Unknown", "Empty"}

EntryOf(name) ==
    CASE name = "Created" ->
            [topics |-> <<Keccak(OrderCreated), Word(5), Word(2748)>>]
      [] name = "CreatedShort" ->
            [topics |-> <<Keccak(OrderCreated), Word(5)>>]
      [] name = "Matched" ->
            [topics |-> <<Keccak(OrderMatched), Word(7)>>]
      [] name = "MatchedOther" ->
            [topics |-> <<Keccak(OrderMatched), Word(1)>>]
      [] name = "MatchedShort" ->
            [topics |-> <<Keccak(OrderMatched)>>]
      [] name = "Completed" ->
            [topics |-> <<Keccak(OrderCompleted), Word(7)>>]
      [] name = "CompletedShort" ->
            [topics |-> <<Keccak(OrderCompleted)>>]
      [] name = "Tracked" ->
            [topics |-> <<Keccak(AddressesTracked), Word(1)>>]
      [] name = "TrackedBare" ->
            [topics |-> <<Keccak(AddressesTracked)>>]
      [] name = "Unknown" ->
            [topics |-> <<Keccak(OtherEvent), Word(5)>>]
      [] OTHER ->
            [topics |-> <<>>]

\* The same as a table, computed once.
EntryTable == [name \in EntryNames |-> EntryOf(name)]
Entry(name) == EntryTable[name]

SeqsUpTo(S, n) == UNION {[1..k -> S] : k \in 0..n}

\* ------------------------------------------------------------------ state
VARIABLES
    components,            \* which of web3 / intent_matching_contract are set,
                           \*   and self.intent_matching_url
    stop_indexing,         \* self.stop_indexing
    indexer_thread,        \* self.indexer_thread: "None" or a thread
    current_room_id,       \* self.current_room_id
    current_order_id,      \* self.current_order_id
    event_signatures,      \* self.event_signatures
    base_url,              \* self.base_url: "unset" until _submit_bid
    pc,                    \* each thread's position in _run_indexer
    last_processed_block,  \* each worker's local cursor
    filter_changes,        \* each worker's latest filter: entries not yet polled
    new_entries,           \* each worker's batch: entries not yet dispatched
    caller,                \* the owning process: "idle" or "joining"
    chainHeight,           \* the chain's current height
    emitted,               \* how many entries the contract has emitted
    after_failure,         \* history: each worker since its first decode failure
    filters,               \* history: whether each worker has created a filter
    owed,                  \* history: entries emitted in each worker's run
                           \*   and not passed to its dispatcher
    eff,                   \* what the program's last step did
    intent_sdk,            \* a PINAIIntentSDK object and the call made on it
    agent_sdk,             \* a PINAIAgentSDK object and the call made on it
    listener,              \* the fields of a PINAIAgentSDK object that listens
    poll,                  \* its polling thread: position and locals
    sdk_caller,            \* the process that owns it: "idle" or "joining"
    sdk_eff                \* what the last step on it did

vars == <<components, stop_indexing, indexer_thread, current_room_id,
          current_order_id, event_signatures, base_url, pc,
          last_processed_block, filter_changes, new_entries, caller,
          chainHeight, emitted, after_failure, filters, owed, eff,
          intent_sdk, agent_sdk, listener, poll, sdk_caller, sdk_eff>>

indexerFields == <<components, stop_indexing, indexer_thread, current_room_id,
                   current_order_id, event_signatures, base_url>>
chainVars == <<chainHeight, emitted>>
histVars == <<filters, owed>>
pollVars == <<listener, poll, sdk_caller, sdk_eff>>
sdkVars == <<intent_sdk, agent_sdk, pollVars>>
workerVars == <<pc, last_processed_block, filter_changes, new_entries,
                after_failure, histVars>>

Log(level, msg) == [level |-> level, msg |-> msg]

\* The effects of one step: who took it, the chain calls, log records, HTTP
\* POSTs and handler invocations it made, and the entry it dispatched.
Eff(by, op, calls, logs, posts, handlers, entry) ==
    [by |-> by, op |-> op, calls |-> calls, logs |-> logs, posts |-> posts,
     handlers |-> handlers, entry |-> entry]

IsAlive(t) == t # "None" /\ pc[t] \notin {"unused", "done"}

\* ---------------------------------------------------------------- handlers
\* What a call did: log records, POSTs, getOrder reads, the handlers entered,
\* the indexer fields it leaves (current_order_id, base_url), and whether an
\* exception left it.
Result(logs, posts, reads, handlers, order, url, raised) ==
    [logs |-> logs, posts |-> posts, reads |-> reads, handlers |-> handlers,
     order |-> order, url |-> url, raised |-> raised]

\* Outcomes of requests.post and of response.json() on a 2xx answer.
PostOutcomes == {"2xx", "2xx_bad_json", "non2xx", "raise"}
\* Outcomes of contract.functions.getOrder(id).call(): a full order record, a
\* record too short to hold field 1, or an exception.
CallOutcomes == {"ok", "short", "raise"}

\* A value of the intent_matching_url argument other than its default.
MatchingUrl == "http://matching.example:8000"

\* Mutant of SubmitBid: the POST goes to the matching service's URL.
SubmitBidToMatchingUrl(bid_data, order, po) ==
    Result(CASE po = "2xx" -> <<Log("info", "Bid submitted successfully")>>
             [] po = "non2xx" -> <<Log("error", "Bid submission failed")>>
             [] OTHER -> <<Log("error", "Error submitting bid")>>,
           <<[base |-> MatchingUrl, path |-> "/bid",
              json |-> bid_data, content_type |-> "application/json"]>>,
           <<>>, <<>>, order, "http://localhost:3000", FALSE)

\* Mutant of SubmitBid: a failed POST is attempted a second time.
SubmitBidRetry(bid_data, order, po) ==
    LET post == [base |-> "http://localhost:3000", path |-> "/bid",
                 json |-> bid_data, content_type |-> "application/json"]
    IN  Result(CASE po = "2xx" -> <<Log("info", "Bid submitted successfully")>>
                 [] po = "non2xx" -> <<Log("error", "Bid submission failed")>>
                 [] OTHER -> <<Log("error", "Error submitting bid")>>,
               IF po = "2xx" THEN <<post>> ELSE <<post, post>>,
               <<>>, <<>>, order, "http://localhost:3000", FALSE)

\* _submit_bid: reassigns base_url, then one POST; every failure is logged.
SubmitBid(bid_data, order, po) ==
    Result(CASE po = "2xx" -> <<Log("info", "Bid submitted successfully")>>
             [] po = "non2xx" -> <<Log("error", "Bid submission failed")>>
             [] OTHER -> <<Log("error", "Error submitting bid")>>,
           <<[base |-> "http://localhost:3000", path |-> "/bid",
              json |-> bid_data, content_type |-> "application/json"]>>,
           <<>>, <<>>, order, "http://localhost:3000", FALSE)

\* A handler's result: the log records it wrote before the call it ends
\* with, then what that call did.
Entered(handler, logs, r) ==
    [r EXCEPT !.logs = logs \o @, !.handlers = <<handler>> \o @]

\* The except clause of a handler: one error record, nothing else.
HandlerFailed(handler, msg, reads, order, url) ==
    Result(<<Log("error", msg)>>, <<>>, reads, <<handler>>, order, url, FALSE)

\* Lines 150-155: the bid for an order.
BidData(order_id, user_address) ==
    [orderId |-> order_id, userId |-> user_address, agentId |-> 0,
     amount |-> 100]

\* Mutant of HandleOrderCreated: the user address is cut from the front of
\* the hex string ([:40]) instead of its end.
HandleOrderCreatedFront(event, order, url, co, po) ==
    IF Len(event.topics) < 3
    THEN HandlerFailed("_handle_order_created",
                       "Error handling OrderCreated event", <<>>, order, url)
    ELSE Entered("_handle_order_created", <<Log("info", "Order created")>>,
                 SubmitBid(BidData(IntOfHex(Hex(event.topics[2])),
                                   <<"0", "x">> \o
                                       SubSeq(Hex(event.topics[3]), 1, 40)),
                           order, po))

\* _handle_order_created: decode topics 1 and 2, build the bid, submit it.
HandleOrderCreated(event, order, url, co, po) ==
    IF Len(event.topics) < 3
    THEN \* IndexError on event['topics'][1] or [2]
         HandlerFailed("_handle_order_created",
                       "Error handling OrderCreated event", <<>>, order, url)
    ELSE Entered("_handle_order_created", <<Log("info", "Order created")>>,
                 SubmitBid(BidData(IntOfHex(Hex(event.topics[2])),
                                   <<"0", "x">> \o
                                       LastChars(Hex(event.topics[3]), 40)),
                           order, po))

\* Mutant of OrderMatchedWith: current_order_id is assigned before the order
\* is read back, so a failing read leaves the new id behind.
OrderMatchedEager(order_id, order, url, co) ==
    IF co = "raise"
    THEN HandlerFailed("_handle_order_matched",
                       "Error handling OrderMatched event", <<order_id>>,
                       Some(order_id), url)
    ELSE Result(<<Log("info", "Order matched")>>, <<>>, <<order_id>>,
                <<"_handle_order_matched">>, Some(order_id), url, FALSE)

\* Mutant of OrderMatchedWith: current_order_id is assigned only while it is
\* empty, so it keeps the first matched order.
OrderMatchedFirst(order_id, order, url, co) ==
    IF co = "raise"
    THEN HandlerFailed("_handle_order_matched",
                       "Error handling OrderMatched event", <<order_id>>,
                       order, url)
    ELSE Result(<<Log("info", "Order matched")>>, <<>>, <<order_id>>,
                <<"_handle_order_matched">>,
                IF order = None THEN Some(order_id) ELSE order, url, FALSE)

\* Lines 191-196 of _handle_order_matched, the order id decoded.
OrderMatchedWith(order_id, order, url, co) ==
    IF co = "raise"
    THEN HandlerFailed("_handle_order_matched",
                       "Error handling OrderMatched event", <<order_id>>,
                       order, url)
    ELSE Result(<<Log("info", "Order matched")>>, <<>>, <<order_id>>,
                <<"_handle_order_matched">>, Some(order_id), url, FALSE)

\* _handle_order_matched: decode topic 1, read the order back, remember its id.
HandleOrderMatched(event, order, url, co, po) ==
    IF Len(event.topics) < 2
    THEN HandlerFailed("_handle_order_matched",
                       "Error handling OrderMatched event", <<>>, order, url)
    ELSE OrderMatchedWith(IntOfHex(Hex(event.topics[2])), order, url, co)

\* Mutant of HandleAddressesTracked: the handler decodes topic 1 and reads
\* the order back, as the other handlers do.
HandleAddressesTrackedRead(event, order, url, co, po) ==
    IF Len(event.topics) < 2
    THEN HandlerFailed("_handle_addresses_tracked",
                       "Error handling AddressesTracked event", <<>>, order,
                       url)
    ELSE Result(<<>>, <<>>, <<IntOfHex(Hex(event.topics[2]))>>,
                <<"_handle_addresses_tracked">>, order, url, FALSE)

\* _handle_addresses_tracked: pass.
HandleAddressesTracked(event, order, url, co, po) ==
    Result(<<>>, <<>>, <<>>, <<"_handle_addresses_tracked">>, order, url, FALSE)

\* Mutant of OrderCompletedWith: the completion is reported to the matching
\* service with a POST.
OrderCompletedNotify(order_id, order, url, co) ==
    IF co = "ok"
    THEN Result(<<Log("info", "Order completed")>>,
                <<[base |-> "http://localhost:3000", path |-> "/completed",
                   json |-> BidData(order_id, <<>>),
                   content_type |-> "application/json"]>>,
                <<order_id>>, <<"_handle_order_completed">>, order, url, FALSE)
    ELSE HandlerFailed("_handle_order_completed",
                       "Error handling OrderCompleted event", <<order_id>>,
                       order, url)

\* Lines 212-215 of _handle_order_completed, the order id decoded.
OrderCompletedWith(order_id, order, url, co) ==
    IF co = "ok"
    THEN Result(<<Log("info", "Order completed")>>, <<>>, <<order_id>>,
                <<"_handle_order_completed">>, order, url, FALSE)
    ELSE \* getOrder raised, or order[1] is out of range
         HandlerFailed("_handle_order_completed",
                       "Error handling OrderCompleted event", <<order_id>>,
                       order, url)

\* _handle_order_completed: decode topic 1, read the order back, take field 1.
HandleOrderCompleted(event, order, url, co, po) ==
    IF Len(event.topics) < 2
    THEN HandlerFailed("_handle_order_completed",
                       "Error handling OrderCompleted event", <<>>, order, url)
    ELSE OrderCompletedWith(IntOfHex(Hex(event.topics[2])), order, url, co)

\* self.event_signatures[event_signature](event)
CallHandler(name, event, order, url, co, po) ==
    CASE name = "_handle_order_created" ->
            HandleOrderCreated(event, order, url, co, po)
      [] name = "_handle_order_matched" ->
            HandleOrderMatched(event, order, url, co, po)
      [] name = "_handle_addresses_tracked" ->
            HandleAddressesTracked(event, order, url, co, po)
      [] OTHER ->
            HandleOrderCompleted(event, order, url, co, po)

\* Lines 130-131: the handler's result, then the debug record unless the
\* handler raised.
Handled(h) ==
    [h EXCEPT !.logs = <<Log("info", "Processing event")>> \o @ \o
                       (IF h.raised THEN <<>>
                        ELSE <<Log("debug", "Processed event with signature")>>)]

\* Mutant of ProcessSignature: the table is indexed without the membership
\* test, so an unknown signature raises KeyError.
ProcessSignatureKeyError(table, event_signature, event, order, url, co, po) ==
    IF HasKey(table, event_signature)
    THEN Handled(CallHandler(Lookup(table, event_signature), event, order,
                             url, co, po))
    ELSE Result(<<Log("info", "Processing event")>>, <<>>, <<>>, <<>>,
                order, url, TRUE)

\* Lines 129-131 of _process_event, the signature taken from topic 0.
ProcessSignature(table, event_signature, event, order, url, co, po) ==
    IF HasKey(table, event_signature)
    THEN Handled(CallHandler(Lookup(table, event_signature), event, order,
                             url, co, po))
    ELSE Result(<<Log("info", "Processing event")>>, <<>>, <<>>, <<>>,
                order, url, FALSE)

\* The try block of _process_event: the first topic, the table lookup, the
\* handler call.
ProcessEventBody(table, event, order, url, co, po) ==
    IF Len(event.topics) < 1
    THEN \* IndexError on event['topics'][0]
         Result(<<Log("info", "Processing event")>>, <<>>, <<>>, <<>>,
                order, url, TRUE)
    ELSE ProcessSignature(table, Hex(event.topics[1]), event, order, url,
                          co, po)

\* Mutant of CatchAndLog: no except clause, the exception goes on.
NoCatch(b) == b

\* except Exception (lines 133-134): log, and the exception ends there.
CatchAndLog(b) ==
    IF b.raised
    THEN [b EXCEPT !.logs = @ \o <<Log("error", "Error processing event")>>,
                   !.raised = FALSE]
    ELSE b

\* _process_event: the body under try / except Exception.
ProcessEvent(table, event, order, url, co, po) ==
    CatchAndLog(ProcessEventBody(table, event, order, url, co, po))

\* _process_event on the entries of the model under the table __init__
\* builds, evaluated once (the hex conversions are costly to redo per step).
OrderIdValues == {None} \cup {Some(n) : n \in {1, 5, 7}}
BaseUrlValues == {"unset", "http://localhost:3000"}
ProcessedTable ==
    [name \in EntryNames, order \in OrderIdValues, url \in BaseUrlValues,
     co \in CallOutcomes, po \in PostOutcomes |->
        ProcessEvent(SignatureTable, Entry(name), order, url, co, po)]

Processed(table, name, order, url, co, po) ==
    IF table = SignatureTable
    THEN ProcessedTable[name, order, url, co, po]
    ELSE ProcessEvent(table, Entry(name), order, url, co, po)

\* What _process_event can do with an entry, over all the outcomes of the
\* calls its handler makes (the outcome of a call that is not made makes no
\* difference).
OutcomeTable ==
    [name \in EntryNames, order \in OrderIdValues, url \in BaseUrlValues |->
        {ProcessedTable[name, order, url, co, po] :
            co \in CallOutcomes, po \in PostOutcomes}]

Outcomes(table, name, order, url) ==
    IF table = SignatureTable
    THEN OutcomeTable[name, order, url]
    ELSE {ProcessEvent(table, Entry(name), order, url, co, po) :
             co \in CallOutcomes, po \in PostOutcomes}

\* ------------------------------------------------------------------- init
\* The state __init__ (lines 34-54) leaves for the arguments in args, with
\* the chain at genesis and nothing emitted.
Constructed(args) ==
    /\ components \in args
    /\ stop_indexing = FALSE
    /\ indexer_thread = "None"
    /\ current_room_id = None
    /\ current_order_id = None
    /\ event_signatures = SignatureTable
    /\ base_url = "unset"
    /\ pc = [t \in Threads |-> "unused"]
    /\ last_processed_block = [t \in Threads |-> 0]
    /\ filter_changes = [t \in Threads |-> <<>>]
    /\ new_entries = [t \in Threads |-> <<>>]
    /\ caller = "idle"
    /\ chainHeight = 0
    /\ emitted = 0
    /\ after_failure = [t \in Threads |-> "no"]
    /\ filters = [t \in Threads |-> "none"]
    /\ owed = [t \in Threads |-> 0]
    /\ eff = Eff("init", "__init__", <<>>, <<>>, <<>>, <<>>, "")

\* No SDK object is constructed next to the indexer.
NoPoller ==
    listener = "None" /\ poll = "None" /\ sdk_caller = "None" /\ sdk_eff = "None"
NoSdk == intent_sdk = "None" /\ agent_sdk = "None" /\ NoPoller

\* __init__ with intent_matching_url left at its default None; web3 and
\* intent_matching_contract may each be absent.
Init ==
    /\ Constructed([web3 : BOOLEAN, contract : BOOLEAN,
                    intent_matching_url : {"None"}])
    /\ NoSdk

\* ------------------------------------------------------------ the caller
\* Mutant of StartRefused: the warning is logged but start() does not
\* return, and goes on to create the thread.
StartRefusedLaunch ==
    /\ caller = "idle"
    /\ ~(components.web3 /\ components.contract)
    /\ stop_indexing' = FALSE
    /\ indexer_thread' = "t1"
    /\ pc' = [pc EXCEPT !["t1"] = "begin"]
    /\ eff' = Eff("caller", "start", <<>>,
                  <<Log("warning", "Blockchain components not initialized")>>,
                  <<>>, <<>>, "")
    /\ UNCHANGED <<components, current_room_id, current_order_id,
                   event_signatures, base_url, last_processed_block,
                   filter_changes, new_entries, after_failure, caller,
                   chainVars, sdkVars,
                   histVars>>

\* start() with a component missing: a warning, nothing else.
StartRefused ==
    /\ caller = "idle"
    /\ ~(components.web3 /\ components.contract)
    /\ eff' = Eff("caller", "start", <<>>,
                  <<Log("warning", "Blockchain components not initialized")>>,
                  <<>>, <<>>, "")
    /\ UNCHANGED <<indexerFields, workerVars, caller, chainVars, sdkVars>>

\* The thread object a start() gets: the first one not running.
FreeThreads == {t \in Threads : pc[t] \in {"unused", "done"}}
NewThread == IF "t1" \in FreeThreads THEN "t1" ELSE "t2"

\* Mutant of Start: the cursor is a field of the indexer that start() sets
\* back to 0, in the caller's thread.
StartResetsCursor(t) ==
    /\ caller = "idle"
    /\ components.web3 /\ components.contract
    /\ FreeThreads # {}
    /\ t = NewThread
    /\ stop_indexing' = FALSE
    /\ indexer_thread' = t
    /\ last_processed_block' = [last_processed_block EXCEPT ![t] = 0]
    /\ pc' = [pc EXCEPT ![t] = "begin"]
    /\ filter_changes' = [filter_changes EXCEPT ![t] = <<>>]
    /\ new_entries' = [new_entries EXCEPT ![t] = <<>>]
    /\ after_failure' = [after_failure EXCEPT ![t] = "no"]
    /\ filters' = [filters EXCEPT ![t] = "none"]
    /\ owed' = [owed EXCEPT ![t] = 0]
    /\ eff' = Eff("caller", "start", <<>>,
                  <<Log("info", "Blockchain indexer service started")>>,
                  <<>>, <<>>, "")
    /\ UNCHANGED <<components, current_room_id, current_order_id,
                   event_signatures, base_url, caller, chainVars, sdkVars>>

\* Mutant of Start: start() also drops the AddressesTracked entry from the
\* signature table.
StartDropsSignature(t) ==
    /\ caller = "idle"
    /\ components.web3 /\ components.contract
    /\ FreeThreads # {}
    /\ t = NewThread
    /\ stop_indexing' = FALSE
    /\ indexer_thread' = t
    /\ event_signatures' =
           [k \in DOMAIN event_signatures \ {AddressesTracked} |->
               event_signatures[k]]
    /\ pc' = [pc EXCEPT ![t] = "begin"]
    /\ filter_changes' = [filter_changes EXCEPT ![t] = <<>>]
    /\ new_entries' = [new_entries EXCEPT ![t] = <<>>]
    /\ after_failure' = [after_failure EXCEPT ![t] = "no"]
    /\ filters' = [filters EXCEPT ![t] = "none"]
    /\ owed' = [owed EXCEPT ![t] = 0]
    /\ eff' = Eff("caller", "start", <<>>,
                  <<Log("info", "Blockchain indexer service started")>>,
                  <<>>, <<>>, "")
    /\ UNCHANGED <<components, current_room_id, current_order_id, base_url,
                   last_processed_block, caller, chainVars, sdkVars>>

\* start(): clear the flag, create and start a new daemon thread.
Start(t) ==
    /\ caller = "idle"
    /\ components.web3 /\ components.contract
    /\ FreeThreads # {}
    /\ t = NewThread
    /\ stop_indexing' = FALSE
    /\ indexer_thread' = t
    /\ pc' = [pc EXCEPT ![t] = "begin"]
    /\ filter_changes' = [filter_changes EXCEPT ![t] = <<>>]
    /\ new_entries' = [new_entries EXCEPT ![t] = <<>>]
    /\ after_failure' = [after_failure EXCEPT ![t] = "no"]
    /\ filters' = [filters EXCEPT ![t] = "none"]
    /\ owed' = [owed EXCEPT ![t] = 0]
    /\ eff' = Eff("caller", "start", <<>>,
                  <<Log("info", "Blockchain indexer service started")>>,
                  <<>>, <<>>, "")
    /\ UNCHANGED <<components, current_room_id, current_order_id,
                   event_signatures, base_url, last_processed_block, caller,
                   chainVars, sdkVars>>

\* stop() when there is no live worker: the if at line 70 is false.
StopNoop ==
    /\ caller = "idle"
    /\ ~IsAlive(indexer_thread)
    /\ eff' = Eff("caller", "stop", <<>>, <<>>, <<>>, <<>>, "")
    /\ UNCHANGED <<indexerFields, workerVars, caller, chainVars, sdkVars>>

\* stop() with a live worker: set the flag and wait in join(timeout=2.0).
StopSignal ==
    /\ caller = "idle"
    /\ IsAlive(indexer_thread)
    /\ stop_indexing' = TRUE
    /\ caller' = "joining"
    /\ eff' = Eff("caller", "stop", <<>>, <<>>, <<>>, <<>>, "")
    /\ UNCHANGED <<components, indexer_thread, current_room_id,
                   current_order_id, event_signatures, base_url, workerVars,
                   chainVars, sdkVars>>

\* Mutant of StopReturn: a join without timeout, which returns only when the
\* worker has ended.
StopReturnJoined ==
    /\ caller = "joining"
    /\ ~IsAlive(indexer_thread)
    /\ caller' = "idle"
    /\ eff' = Eff("caller", "stop_return", <<>>,
                  <<Log("info", "Blockchain indexer stopped")>>,
                  <<>>, <<>>, "")
    /\ UNCHANGED <<indexerFields, workerVars, chainVars, sdkVars>>

\* join returns, because the worker ended or because the two seconds passed;
\* stop() logs and returns.
StopReturn ==
    /\ caller = "joining"
    /\ caller' = "idle"
    /\ eff' = Eff("caller", "stop_return", <<>>,
                  <<Log("info", "Blockchain indexer stopped")>>,
                  <<>>, <<>>, "")
    /\ UNCHANGED <<indexerFields, workerVars, chainVars, sdkVars>>

\* ------------------------------------------------------------- the chain
\* A block is mined; the contract emits some entries in it.  Every filter
\* that is still polled (a worker between lines 100 and 99) accumulates them.
Mine(es) ==
    /\ chainHeight < MaxHeight
    /\ emitted + Len(es) <= MaxLog
    /\ chainHeight' = chainHeight + 1
    /\ emitted' = emitted + Len(es)
    /\ filter_changes' =
           [t \in Threads |-> IF pc[t] = "fetch" THEN filter_changes[t] \o es
                              ELSE filter_changes[t]]
    /\ owed' = [t \in Threads |-> IF IsAlive(t) THEN owed[t] + Len(es)
                                   ELSE owed[t]]
    /\ UNCHANGED <<indexerFields, pc, last_processed_block, new_entries,
                   after_failure, filters, caller, eff, sdkVars>>

\* What a block may hold: entries of each event, well-formed and not.  While
\* no filter is polled the entries of a block reach nobody and only their
\* number matters, so one batch of each length stands for all of them.
MixedNames == {"Created", "CreatedShort", "Matched", "Completed",
               "CompletedShort", "Tracked", "Unknown", "Empty"}
Batches == SeqsUpTo(MixedNames, MaxLog)
UnseenBatches == {[i \in 1..k |-> "Empty"] : k \in 0..MaxLog}
Emittable ==
    IF \E t \in Threads : pc[t] = "fetch" THEN Batches ELSE UnseenBatches

MineBlock == \E es \in Emittable : Mine(es)

\* A reorganisation drops the d newest blocks: the height the client reports
\* goes down by d.
Reorg(d) ==
    /\ d <= chainHeight
    /\ chainHeight' = chainHeight - d
    /\ UNCHANGED <<indexerFields, workerVars, caller, emitted, eff,
                   sdkVars>>

\* ------------------------------------------------------------ the worker
\* Mutant of Caught: the except clause logs and leaves the loop.
CaughtAndExit(t, calls) ==
    /\ pc' = [pc EXCEPT ![t] = "done"]
    /\ eff' = Eff(t, "caught", calls, <<Log("error", "Error in indexer")>>,
                  <<>>, <<>>, "")

\* The except clause of the loop (lines 112-113): log, then the backoff sleep.
Caught(t, calls) ==
    /\ pc' = [pc EXCEPT ![t] = "backoff"]
    /\ eff' = Eff(t, "caught", calls, <<Log("error", "Error in indexer")>>,
                  <<>>, <<>>, "")

\* Lines 77-89: the contract check, the filter parameters, the cursor.
RunBegin(t) ==
    /\ pc[t] = "begin"
    /\ IF ~components.contract
       THEN /\ pc' = [pc EXCEPT ![t] = "done"]
            /\ eff' = Eff(t, "begin", <<>>,
                          <<Log("error", "Intent matching contract not initialized")>>,
                          <<>>, <<>>, "")
            /\ UNCHANGED last_processed_block
       ELSE /\ pc' = [pc EXCEPT ![t] = "check"]
            /\ eff' = Eff(t, "begin", <<>>,
                          <<Log("info", "Starting to listen for events...")>>,
                          <<>>, <<>>, "")
            /\ last_processed_block' =
                   [last_processed_block EXCEPT ![t] = 0]
    /\ UNCHANGED <<indexerFields, filter_changes, new_entries, after_failure,
                   caller, chainVars, sdkVars,
                   histVars>>

\* Line 91: while not self.stop_indexing.
LoopCheck(t) ==
    /\ pc[t] = "check"
    /\ pc' = [pc EXCEPT ![t] = IF stop_indexing THEN "done" ELSE "read1"]
    /\ after_failure' =
           [after_failure EXCEPT ![t] =
               IF @ = "failed" /\ ~stop_indexing THEN "resumed" ELSE @]
    /\ eff' = Eff(t, "check", <<>>, <<>>, <<>>, <<>>, "")
    /\ UNCHANGED <<indexerFields, last_processed_block, filter_changes,
                   new_entries, caller, chainVars, sdkVars, histVars>>

\* Mutant of ReadHeight: the guard is < instead of <=.
ReadHeightStrict(t) ==
    /\ pc[t] = "read1"
    /\ \/ /\ pc' = [pc EXCEPT ![t] =
                       IF chainHeight < last_processed_block[t]
                       THEN "check" ELSE "read2"]
          /\ eff' = Eff(t, "read1", <<"get_block_number">>, <<>>, <<>>, <<>>, "")
       \/ Caught(t, <<"get_block_number">>)
    /\ UNCHANGED <<indexerFields, last_processed_block, filter_changes,
                   new_entries, after_failure, caller, chainVars, sdkVars,
                   histVars>>

\* Lines 93-94: the first height read; continue when it has not advanced.
ReadHeight(t) ==
    /\ pc[t] = "read1"
    /\ \/ /\ pc' = [pc EXCEPT ![t] =
                       IF chainHeight <= last_processed_block[t]
                       THEN "check" ELSE "read2"]
          /\ eff' = Eff(t, "read1", <<"get_block_number">>, <<>>, <<>>, <<>>, "")
       \/ Caught(t, <<"get_block_number">>)
    /\ UNCHANGED <<indexerFields, last_processed_block, filter_changes,
                   new_entries, after_failure, caller, chainVars, sdkVars,
                   histVars>>

\* Line 96: the second height read, stored in the cursor.
AdvanceCursor(t) ==
    /\ pc[t] = "read2"
    /\ \/ /\ last_processed_block' =
                 [last_processed_block EXCEPT ![t] = chainHeight]
          /\ pc' = [pc EXCEPT ![t] = "filter"]
          /\ eff' = Eff(t, "read2", <<"get_block_number">>, <<>>, <<>>, <<>>, "")
       \/ /\ Caught(t, <<"get_block_number">>)
          /\ UNCHANGED last_processed_block
    /\ UNCHANGED <<indexerFields, filter_changes, new_entries, after_failure,
                   caller, chainVars, sdkVars,
                   histVars>>

\* Line 100: web3.eth.filter(contract_filter), a new filter from "latest": it
\* accumulates the entries emitted after its creation.
CreateFilter(t) ==
    /\ pc[t] = "filter"
    /\ \/ /\ filter_changes' = [filter_changes EXCEPT ![t] = <<>>]
          /\ filters' = [filters EXCEPT ![t] = "created"]
          /\ pc' = [pc EXCEPT ![t] = "fetch"]
          /\ eff' = Eff(t, "filter", <<"filter">>, <<>>, <<>>, <<>>, "")
       \/ /\ Caught(t, <<"filter">>)
          /\ UNCHANGED <<filter_changes, filters>>
    /\ UNCHANGED <<indexerFields, last_processed_block, new_entries,
                   after_failure, owed, caller, chainVars, sdkVars>>

\* Lines 99-103: get_filter_changes on that filter returns what it has
\* accumulated; the filter is not polled again.
GetFilterChanges(t) ==
    /\ pc[t] = "fetch"
    /\ filter_changes' = [filter_changes EXCEPT ![t] = <<>>]
    /\ \/ LET got == filter_changes[t]
          IN  /\ new_entries' = [new_entries EXCEPT ![t] = got]
              /\ pc' = [pc EXCEPT ![t] =
                           IF got = <<>> THEN "sleep" ELSE "dispatch"]
              /\ eff' = Eff(t, "fetch", <<"get_filter_changes">>,
                            <<Log("info", "New entries")>>, <<>>, <<>>, "")
       \/ /\ Caught(t, <<"get_filter_changes">>)
          /\ UNCHANGED new_entries
    /\ UNCHANGED <<indexerFields, last_processed_block, after_failure, caller,
                   chainVars, sdkVars,
                   histVars>>

\* The topics a handler decodes, the signature topic included.
TopicsRead(handler) ==
    CASE handler = "_handle_order_created" -> 3
      [] handler = "_handle_addresses_tracked" -> 1
      [] OTHER -> 2

\* The entry goes to a handler, which finds fewer topics than it decodes.
DecodeFails(table, event) ==
    /\ Len(event.topics) >= 1
    /\ HasKey(table, Hex(event.topics[1]))
    /\ Len(event.topics) < TopicsRead(Lookup(table, Hex(event.topics[1])))

\* DecodeFails for the table __init__ builds, evaluated once per entry.
DecodeFailsTable ==
    [name \in EntryNames |-> DecodeFails(SignatureTable, Entry(name))]
DecodeFailure(table, name) ==
    IF table = SignatureTable THEN DecodeFailsTable[name]
    ELSE DecodeFails(table, Entry(name))

HasError(logs) == \E i \in DOMAIN logs : logs[i].level = "error"

\* Mutant of AfterProcessEvent: an entry whose processing logged an error
\* ends the batch (a break out of the for loop).
AfterProcessEventBreak(t, name, r) ==
    /\ current_order_id' = r.order
    /\ base_url' = r.url
    /\ after_failure' =
           [after_failure EXCEPT ![t] =
               IF @ = "no" /\ DecodeFailure(event_signatures, name)
               THEN "failed" ELSE @]
    /\ pc' = [pc EXCEPT ![t] =
                 IF Len(new_entries[t]) = 1 \/ HasError(r.logs) THEN "sleep"
                 ELSE "dispatch"]
    /\ new_entries' = [new_entries EXCEPT ![t] =
                          IF HasError(r.logs) THEN <<>> ELSE Tail(@)]
    /\ eff' = Eff(t, "dispatch", r.reads, r.logs, r.posts, r.handlers, name)

\* Mutant of AfterProcessEvent: an entry whose processing logged an error
\* ends the worker (a return out of _run_indexer).
AfterProcessEventReturn(t, name, r) ==
    /\ current_order_id' = r.order
    /\ base_url' = r.url
    /\ after_failure' =
           [after_failure EXCEPT ![t] =
               IF @ = "no" /\ DecodeFailure(event_signatures, name)
               THEN "failed" ELSE @]
    /\ pc' = [pc EXCEPT ![t] =
                 IF HasError(r.logs) THEN "done"
                 ELSE IF Len(new_entries[t]) = 1 THEN "sleep"
                 ELSE "dispatch"]
    /\ new_entries' = [new_entries EXCEPT ![t] =
                          IF HasError(r.logs) THEN <<>> ELSE Tail(@)]
    /\ eff' = Eff(t, "dispatch", r.reads, r.logs, r.posts, r.handlers, name)

\* Mutant of AfterProcessEvent: the for loop tests the stop flag after each
\* entry and abandons the batch when it is set.
AfterProcessEventCancel(t, name, r) ==
    /\ current_order_id' = r.order
    /\ base_url' = r.url
    /\ after_failure' =
           [after_failure EXCEPT ![t] =
               IF @ = "no" /\ DecodeFailure(event_signatures, name)
               THEN "failed" ELSE @]
    /\ pc' = [pc EXCEPT ![t] =
                 IF stop_indexing THEN "done"
                 ELSE IF Len(new_entries[t]) = 1 THEN "sleep"
                 ELSE "dispatch"]
    /\ new_entries' = [new_entries EXCEPT ![t] =
                          IF stop_indexing THEN <<>> ELSE Tail(@)]
    /\ eff' = Eff(t, "dispatch", r.reads, r.logs, r.posts, r.handlers, name)

\* Mutant of AfterProcessEvent: an entry whose processing logged an error
\* stays at the head of the batch and is processed again.
AfterProcessEventRetry(t, name, r) ==
    /\ current_order_id' = r.order
    /\ base_url' = r.url
    /\ after_failure' =
           [after_failure EXCEPT ![t] =
               IF @ = "no" /\ DecodeFailure(event_signatures, name)
               THEN "failed" ELSE @]
    /\ pc' = [pc EXCEPT ![t] =
                 IF Len(new_entries[t]) = 1 /\ ~HasError(r.logs) THEN "sleep"
                 ELSE "dispatch"]
    /\ new_entries' = [new_entries EXCEPT ![t] =
                          IF HasError(r.logs) THEN @ ELSE Tail(@)]
    /\ eff' = Eff(t, "dispatch", r.reads, r.logs, r.posts, r.handlers, name)

\* The for loop of lines 106-107 after _process_event returned r for the
\* entry called name: the next entry, or the sleep.  An exception leaving
\* _process_event would end the batch in the loop's except clause.
AfterProcessEvent(t, name, r) ==
    /\ current_order_id' = r.order
    /\ base_url' = r.url
    /\ after_failure' =
           [after_failure EXCEPT ![t] =
               IF @ = "no" /\ DecodeFailure(event_signatures, name)
               THEN "failed" ELSE @]
    /\ IF r.raised
       THEN /\ pc' = [pc EXCEPT ![t] = "backoff"]
            /\ new_entries' = [new_entries EXCEPT ![t] = <<>>]
            /\ eff' = Eff(t, "dispatch", r.reads,
                          r.logs \o <<Log("error", "Error in indexer")>>,
                          r.posts, r.handlers, name)
       ELSE /\ pc' = [pc EXCEPT ![t] =
                         IF Len(new_entries[t]) = 1 THEN "sleep"
                         ELSE "dispatch"]
            /\ new_entries' = [new_entries EXCEPT ![t] = Tail(@)]
            /\ eff' = Eff(t, "dispatch", r.reads, r.logs, r.posts,
                          r.handlers, name)

\* Mutant of Dispatch: the for loop takes the batch from its end.
DispatchLast(t) ==
    /\ pc[t] = "dispatch"
    /\ \E co \in CallOutcomes, po \in PostOutcomes :
          LET name == new_entries[t][Len(new_entries[t])]
              r == Processed(event_signatures, name, current_order_id,
                             base_url, co, po)
          IN  /\ current_order_id' = r.order
              /\ base_url' = r.url
              /\ eff' = Eff(t, "dispatch", r.reads, r.logs, r.posts,
                            r.handlers, name)
    /\ after_failure' = after_failure
    /\ pc' = [pc EXCEPT ![t] =
                 IF Len(new_entries[t]) = 1 THEN "sleep" ELSE "dispatch"]
    /\ new_entries' = [new_entries EXCEPT ![t] = SubSeq(@, 1, Len(@) - 1)]
    /\ owed' = [owed EXCEPT ![t] = @ - 1]
    /\ UNCHANGED <<components, stop_indexing, indexer_thread, current_room_id,
                   event_signatures, last_processed_block, filter_changes,
                   filters, caller, chainVars, sdkVars>>

\* Lines 106-107: one turn of the for loop, _process_event on the next entry
\* of the batch.
Dispatch(t) ==
    /\ pc[t] = "dispatch"
    /\ \E r \in Outcomes(event_signatures, Head(new_entries[t]),
                         current_order_id, base_url) :
          AfterProcessEvent(t, Head(new_entries[t]), r)
    /\ owed' = [owed EXCEPT ![t] = @ - 1]
    /\ UNCHANGED <<components, stop_indexing, indexer_thread, current_room_id,
                   event_signatures, last_processed_block, filter_changes,
                   filters, caller, chainVars, sdkVars>>

\* Line 110: time.sleep(0.1) at the end of an iteration that fetched.
Sleep(t) ==
    /\ pc[t] = "sleep"
    /\ pc' = [pc EXCEPT ![t] = "check"]
    /\ eff' = Eff(t, "sleep", <<>>, <<>>, <<>>, <<>>, "")
    /\ UNCHANGED <<indexerFields, last_processed_block, filter_changes,
                   new_entries, after_failure, caller, chainVars, sdkVars,
                   histVars>>

\* Mutant of Backoff: after the backoff sleep the worker retries the height
\* read without going through the loop test.
BackoffRetry(t) ==
    /\ pc[t] = "backoff"
    /\ pc' = [pc EXCEPT ![t] = "read1"]
    /\ eff' = Eff(t, "backoff", <<>>, <<>>, <<>>, <<>>, "")
    /\ UNCHANGED <<indexerFields, last_processed_block, filter_changes,
                   new_entries, after_failure, caller, chainVars, sdkVars,
                   histVars>>

\* Line 114: time.sleep(1) after a caught exception.
Backoff(t) ==
    /\ pc[t] = "backoff"
    /\ pc' = [pc EXCEPT ![t] = "check"]
    /\ eff' = Eff(t, "backoff", <<>>, <<>>, <<>>, <<>>, "")
    /\ UNCHANGED <<indexerFields, last_processed_block, filter_changes,
                   new_entries, after_failure, caller, chainVars, sdkVars,
                   histVars>>

Worker(t) ==
    \/ RunBegin(t)
    \/ LoopCheck(t)
    \/ ReadHeight(t)
    \/ AdvanceCursor(t)
    \/ CreateFilter(t)
    \/ GetFilterChanges(t)
    \/ Dispatch(t)
    \/ Sleep(t)
    \/ Backoff(t)

\* start() by a caller that keeps to one worker at a time: it does not call
\* start() while the worker it started is alive.
StartSerial(t) ==
    /\ \A u \in Threads : ~IsAlive(u)
    /\ Start(t)

\* The indexer used one worker at a time, the contract emitting any entries.
Next ==
    \/ StartRefused
    \/ \E t \in Threads : StartSerial(t)
    \/ StopNoop
    \/ StopSignal
    \/ StopReturn
    \/ MineBlock
    \/ \E d \in 1..MaxHeight : Reorg(d)
    \/ \E t \in Threads : Worker(t)

Spec == Init /\ [][Next]_vars

\* Every call the worker makes returns (or raises), and its sleeps end: a
\* worker that can take a step takes one.
SpecFair == Spec /\ \A t \in Threads : WF_vars(Worker(t))

\* join(timeout=2.0) returns after two seconds at the latest, whatever the
\* worker does; nothing is assumed of the worker.
SpecJoin == Spec /\ WF_vars(StopReturn)

\* The indexer used by a caller that calls start() and stop() in any order,
\* so that a second worker may start while the first is alive.  The chain
\* only grows, and the contract emits OrderCreated entries, one to a block at
\* most.
OverlapBatches == SeqsUpTo({"Created"}, 1)
MineOverlap == \E es \in OverlapBatches : Mine(es)
NextOverlap ==
    \/ StartRefused
    \/ \E t \in Threads : Start(t)
    \/ StopNoop
    \/ StopSignal
    \/ StopReturn
    \/ MineOverlap
    \/ \E t \in Threads : Worker(t)

SpecOverlap == Init /\ [][NextOverlap]_vars

\* The same, every call of a worker returning and its sleeps ending.
SpecOverlapFair ==
    SpecOverlap /\ \A t \in Threads : WF_vars(Worker(t))

\* The indexer used one worker at a time on a chain that only grows, the
\* contract emitting entries of the four events, among them OrderMatched
\* entries of two orders and entries with the signature topic alone.
OrderNames == {"Created", "Matched", "MatchedOther", "MatchedShort",
               "Completed", "CompletedShort", "Tracked", "TrackedBare"}
OrderBatches == SeqsUpTo(OrderNames, MaxLog)
MineOrders ==
    \E es \in (IF \E t \in Threads : pc[t] = "fetch" THEN OrderBatches
                ELSE UnseenBatches) : Mine(es)
NextOrders ==
    \/ StartRefused
    \/ \E t \in Threads : StartSerial(t)
    \/ StopNoop
    \/ StopSignal
    \/ StopReturn
    \/ MineOrders
    \/ \E t \in Threads : Worker(t)

SpecOrders == Init /\ [][NextOrders]_vars

\* The indexer constructed with both components and with or without an
\* intent_matching_url, used one worker at a time on a chain that only
\* grows, the contract emitting OrderCreated and OrderMatched entries.
InitConfigured ==
    /\ Constructed([web3 : {TRUE}, contract : {TRUE},
                    intent_matching_url : {"None", MatchingUrl}])
    /\ NoSdk
ConfiguredBatches == SeqsUpTo({"Created", "Matched"}, MaxLog)
MineConfigured ==
    \E es \in (IF \E t \in Threads : pc[t] = "fetch" THEN ConfiguredBatches
                ELSE UnseenBatches) : Mine(es)
NextConfigured ==
    \/ \E t \in Threads : StartSerial(t)
    \/ StopNoop
    \/ StopSignal
    \/ StopReturn
    \/ MineConfigured
    \/ \E t \in Threads : Worker(t)

SpecConfigured == InitConfigured /\ [][NextConfigured]_vars

\* ------------------------------------------------------------- the SDKs
\* No indexer is run next to an SDK object.
NoIndexer ==
    Constructed([web3 : {FALSE}, contract : {FALSE},
                 intent_matching_url : {"None"}])
indexerVars == <<indexerFields, workerVars, caller, chainVars, eff>>

\* A Python container: its type and its items.  A string is a TLA+ string,
\* "" standing for both the empty string and None (each is falsy).
Value(type, items) == [type |-> type, items |-> items]

\* How a call ended: a value returned or an exception raised.
NoOutcome == [kind |-> "none", type |-> "", value |-> None]
Return(value) == [kind |-> "return", type |-> "", value |-> Some(value)]
Raise(type) == [kind |-> "raise", type |-> type, value |-> None]

\* Addresses: the SDK account's (eth_account gives the checksum form), and an
\* owner's in lower case and in checksum form.
AccountAddress == "0xF39fD6e5"
OwnerLower == "0x70997970c5"
OwnerChecksum == "0x70997970C5"
\* Web3.to_checksum_address: the checksum form, or None where it raises.
ToChecksumAddress(a) ==
    CASE a \in {OwnerLower, OwnerChecksum} -> Some(OwnerChecksum)
      [] a = AccountAddress -> Some(AccountAddress)
      [] OTHER -> None

\* What the chain does with the create transaction: one of its calls raises,
\* or the receipt comes with status 0 or 1.
ChainOutcomes == {"nonce_raises", "build_raises", "sign_raises",
                  "send_raises", "wait_raises", "status_0", "status_1"}
\* What the API does with a request: a JSON answer, or a failure.
HttpOutcomes == {"ok", "timeout", "connection", "http_error", "bad_json"}
\* JSON objects the API answers with: the id key absent, 0 or 42.
Response(id) == [status |-> "success", id |-> id]
Responses == {Response(None), Response(Some(0)), Response(Some(42))}

\* The chain calls of the try block up to the one that fails under outcome
\* co, in the order the code makes them.
ChainCallOrder ==
    <<"get_transaction_count", "to_checksum_address", "build_transaction",
      "sign_transaction", "send_raw_transaction",
      "wait_for_transaction_receipt">>
ChainCallsMade(co, owner_ok) ==
    LET last == CASE co = "nonce_raises" -> 1
                  [] ~owner_ok -> 2
                  [] co = "build_raises" -> 3
                  [] co = "sign_raises" -> 4
                  [] co = "send_raises" -> 5
                  [] OTHER -> 6
    IN  SubSeq(ChainCallOrder, 1, last)
ChainReceipt(co, owner_ok) ==
    IF ~owner_ok \/ co \notin {"status_0", "status_1"} THEN "none"
    ELSE IF co = "status_1" THEN "1" ELSE "0"

\* ---------------------------------------------------------- PINAIIntentSDK
\* src/pinai_intent_sdk/pinai_intent_sdk.py.  The arguments of one
\* register_agent call; availability and response_time in tenths.
IntentArgs ==
    [name : {"", "Test Agent"},
     category : {"transport"},
     description : {"", "Test agent"},
     api_endpoint : {"", "http://test-agent.com"},
     capabilities : {Value("list", <<>>), Value("list", <<"test">>),
                     Value("tuple", <<"test">>)},
     pricing_model : {Value("dict", <<>>), Value("dict", <<"per_request">>),
                      Value("list", <<"per_request">>)},
     response_time : {-10, 0, 10},
     availability : {-1, 0, 10, 11},
     agent_owner : {"", OwnerLower, OwnerChecksum, "0x123"}]

\* Mutant of ValidationFailure: a response_time of 0 is accepted.
ValidationFailureStrict(a) ==
    CASE a.name = "" \/ a.description = "" \/ a.api_endpoint = "" ->
            "name, description and api_endpoint are required"
      [] a.capabilities.type # "list" \/ a.capabilities.items = <<>> ->
            "capabilities must be a non-empty list"
      [] a.pricing_model.type # "dict" \/ a.pricing_model.items = <<>> ->
            "pricing_model must be a non-empty dictionary"
      [] ~(0 <= a.availability /\ a.availability <= 10) ->
            "availability must be between 0.0 and 1.0"
      [] a.response_time < 0 ->
            "response_time must be positive"
      [] OTHER -> ""

\* Lines 129-138: the message of the first check that fails, "" when none
\* does.
ValidationFailure(a) ==
    CASE a.name = "" \/ a.description = "" \/ a.api_endpoint = "" ->
            "name, description and api_endpoint are required"
      [] a.capabilities.type # "list" \/ a.capabilities.items = <<>> ->
            "capabilities must be a non-empty list"
      [] a.pricing_model.type # "dict" \/ a.pricing_model.items = <<>> ->
            "pricing_model must be a non-empty dictionary"
      [] ~(0 <= a.availability /\ a.availability <= 10) ->
            "availability must be between 0.0 and 1.0"
      [] a.response_time <= 0 ->
            "response_time must be positive"
      [] OTHER -> ""

\* name.lower().replace(' ', '_') on the names of the model.
LowerUnderscore(name) ==
    CASE name = "Test Agent" -> "test_agent"
      [] OTHER -> name

\* Lines 199-210: the body of the HTTP request.
IntentAgentData(a) ==
    [id |-> <<a.category, LowerUnderscore(a.name)>>, name |-> a.name,
     category |-> a.category, description |-> a.description,
     api_endpoint |-> a.api_endpoint, capabilities |-> a.capabilities,
     pricing_model |-> a.pricing_model, response_time |-> a.response_time,
     availability |-> a.availability, metadata |-> Value("dict", <<>>)]

\* Lines 161-171: the create transaction, owner_address converted.
IntentCreate(a, owner) ==
    [owner |-> owner, name |-> a.name, api_endpoint |-> a.api_endpoint,
     dependencies |-> <<1>>, from |-> AccountAddress, value |-> 0,
     gas |-> 500000]

\* The owner the transaction is built for: agent_owner, or the account's
\* address when it is empty; None when the conversion raises.
IntentOwner(a) ==
    ToChecksumAddress(IF a.agent_owner # "" THEN a.agent_owner
                      ELSE AccountAddress)

\* A PINAIIntentSDK object, constructed with or without a private key, and
\* one register_agent call made on it.
IntentCalled(blockchain, a) ==
    [blockchain |-> blockchain, args |-> a, pc |-> "called", calls |-> <<>>,
     txs |-> <<>>, requests |-> <<>>, receipt |-> "none",
     response |-> None, outcome |-> NoOutcome]

InitIntent ==
    /\ NoIndexer
    /\ intent_sdk \in {IntentCalled(b, a) : b \in BOOLEAN, a \in IntentArgs}
    /\ agent_sdk = "None"
    /\ NoPoller

\* Lines 129-141: the validation, then the test for the blockchain
\* components.
IntentValidate ==
    /\ intent_sdk.pc = "called"
    /\ intent_sdk' =
          IF ValidationFailure(intent_sdk.args) # ""
          THEN [intent_sdk EXCEPT !.pc = "done",
                                  !.outcome = Raise("ValidationError")]
          ELSE [intent_sdk EXCEPT !.pc = IF intent_sdk.blockchain
                                         THEN "chain" ELSE "http"]
    /\ UNCHANGED <<indexerVars, agent_sdk, pollVars>>

\* Mutant of IntentCreateOnChain: a failure of the blockchain step is
\* swallowed and the registration goes on, as in PINAIAgentSDK.
IntentCreateOnChainLenient ==
    /\ intent_sdk.pc = "chain"
    /\ \E co \in ChainOutcomes :
          LET owner == IntentOwner(intent_sdk.args)
              made == ChainCallsMade(co, owner # None)
              receipt == ChainReceipt(co, owner # None)
          IN  intent_sdk' =
                 [intent_sdk EXCEPT
                    !.calls = @ \o made,
                    !.txs = IF Len(made) >= 5
                            THEN @ \o <<IntentCreate(intent_sdk.args,
                                                     owner[1])>>
                            ELSE @,
                    !.receipt = receipt,
                    !.pc = "http"]
    /\ UNCHANGED <<indexerVars, agent_sdk, pollVars>>

\* Lines 142-196: the try block.  Every exception, the one raised for a
\* receipt whose status is not 1 included, leaves as IntentMatchError.
IntentCreateOnChain ==
    /\ intent_sdk.pc = "chain"
    /\ \E co \in ChainOutcomes :
          LET owner == IntentOwner(intent_sdk.args)
              made == ChainCallsMade(co, owner # None)
              receipt == ChainReceipt(co, owner # None)
          IN  intent_sdk' =
                 [intent_sdk EXCEPT
                    !.calls = @ \o made,
                    !.txs = IF Len(made) >= 5
                            THEN @ \o <<IntentCreate(intent_sdk.args,
                                                     owner[1])>>
                            ELSE @,
                    !.receipt = receipt,
                    !.pc = IF receipt = "1" THEN "http" ELSE "done",
                    !.outcome = IF receipt = "1" THEN @
                                ELSE Raise("IntentMatchError")]
    /\ UNCHANGED <<indexerVars, agent_sdk, pollVars>>

\* Mutant of IntentMakeRequest: a failed request is repeated once, and the
\* answer is returned as the value of a "data" key.
IntentMakeRequestWrapped(sdk, request, ho, answer) ==
    [sdk EXCEPT
       !.pc = "done",
       !.calls = @ \o <<"POST /register_agent">>,
       !.requests = IF ho = "ok" THEN @ \o <<request>>
                    ELSE @ \o <<request, request>>,
       !.response = IF ho = "ok" THEN Some(answer) ELSE None,
       !.outcome = IF ho = "ok"
                   THEN Return([status |-> "success", id |-> Some(answer.id)])
                   ELSE Raise("IntentMatchError")]

\* _make_request (lines 75-91) for the register request: one request; the
\* parsed answer is returned, and every failure leaves as IntentMatchError.
IntentMakeRequest(sdk, request, ho, answer) ==
    [sdk EXCEPT
       !.pc = "done",
       !.calls = @ \o <<"POST /register_agent">>,
       !.requests = @ \o <<request>>,
       !.response = IF ho = "ok" THEN Some(answer) ELSE None,
       !.outcome = IF ho = "ok" THEN Return(answer)
                   ELSE Raise("IntentMatchError")]

\* Lines 199-212: the HTTP registration.
IntentPostRegister ==
    /\ intent_sdk.pc = "http"
    /\ \E ho \in HttpOutcomes, answer \in Responses :
          intent_sdk' =
             IntentMakeRequest(intent_sdk,
                               [method |-> "POST",
                                endpoint |-> "/register_agent",
                                json |-> IntentAgentData(intent_sdk.args)],
                               ho, answer)
    /\ UNCHANGED <<indexerVars, agent_sdk, pollVars>>

NextIntent ==
    \/ IntentValidate
    \/ IntentCreateOnChain
    \/ IntentPostRegister

SpecIntent == InitIntent /\ [][NextIntent]_vars

\* ----------------------------------------------------------- PINAIAgentSDK
\* src/pinai_agent_sdk/pinai_agent_sdk.py.  A string is its text and its
\* length; a shorter length than the text's stands for a prefix of it.
MAX_STRING_LENGTH == 256
Str(text, len) == [text |-> text, len |-> len]
LongText == Str("long text", MAX_STRING_LENGTH + 1)

\* _truncate_string (lines 264-282).
TruncateString(input_str) ==
    IF input_str.len = 0 THEN Str("", 0)
    ELSE IF input_str.len <= MAX_STRING_LENGTH THEN input_str
    ELSE Str(input_str.text, MAX_STRING_LENGTH)
Truncated(input_str) == input_str.len > MAX_STRING_LENGTH

\* The arguments of one register_agent call.
AgentArgs ==
    [name : {Str("", 0), Str("Test Agent", 10), LongText},
     ticker : {Str("TEST", 4)},
     description : {Str("Test agent", 10), LongText},
     cover : {"", "http://cover.example/a.png"},
     metadata : {Value("NoneType", <<>>), Value("dict", <<"version">>)},
     agent_owner : {"", OwnerLower, OwnerChecksum, "0x123"}]

\* Lines 194-204: the body of the HTTP request; cover and metadata only when
\* they are truthy.
AgentData(a) ==
    [name |-> a.name, ticker |-> a.ticker, description |-> a.description,
     cover |-> IF a.cover # "" THEN Some(a.cover) ELSE None,
     metadata |-> IF a.metadata.items # <<>> THEN Some(a.metadata) ELSE None]

\* Lines 245-252: the create transaction.
AgentCreate(a, owner, agent_id) ==
    [owner |-> owner, name |-> TruncateString(a.name),
     endpoint |-> TruncateString(a.ticker),
     description |-> TruncateString(a.description), agent_id |-> agent_id,
     category |-> <<"keccak", a.ticker.text>>, from |-> AccountAddress,
     value |-> 0, gas |-> 500000]

AgentOwner(a) ==
    ToChecksumAddress(IF a.agent_owner # "" THEN a.agent_owner
                      ELSE AccountAddress)

\* A PINAIAgentSDK object, constructed with or without a private key and
\* holding what an earlier registration left in _agent_info, and one
\* register_agent call made on it.
AgentCalled(blockchain, agent_info, a) ==
    [blockchain |-> blockchain, agent_info |-> agent_info, args |-> a,
     pc |-> "called", calls |-> <<>>, txs |-> <<>>, requests |-> <<>>,
     receipt |-> "none", response |-> None, logs |-> <<>>,
     outcome |-> NoOutcome]

InitAgent ==
    /\ NoIndexer
    /\ intent_sdk = "None"
    /\ NoPoller
    /\ agent_sdk \in {AgentCalled(b, i, a) :
                        b \in BOOLEAN,
                        i \in {None, Some(Response(Some(7)))},
                        a \in AgentArgs}

\* Line 261 and the return.
AgentReturn(sdk) ==
    [sdk EXCEPT !.pc = "done",
                !.logs = @ \o <<Log("info", "Agent registered")>>,
                !.outcome = Return(sdk.response[1])]

\* Lines 194-210: the HTTP registration through _make_request (lines
\* 106-148), which logs and re-raises a failure; then _agent_info.
AgentPostRegister ==
    /\ agent_sdk.pc = "called"
    /\ \E ho \in HttpOutcomes, answer \in Responses :
          LET asked == [agent_sdk EXCEPT
                          !.calls = @ \o <<"POST api/sdk/register_agent">>,
                          !.requests =
                             @ \o <<[method |-> "POST",
                                     endpoint |-> "api/sdk/register_agent",
                                     json |-> AgentData(agent_sdk.args)]>>]
              saved == [asked EXCEPT !.response = Some(answer),
                                     !.agent_info = Some(answer)]
          IN  agent_sdk' =
                 IF ho # "ok"
                 THEN [asked EXCEPT
                         !.pc = "done",
                         !.logs = @ \o <<Log("error", "Request error")>>,
                         !.outcome = Raise("RequestException")]
                 ELSE IF agent_sdk.blockchain
                 THEN [saved EXCEPT !.pc = "chain"]
                 ELSE AgentReturn(saved)
    /\ UNCHANGED <<indexerVars, intent_sdk, pollVars>>

\* Mutant of AgentAfterChain: a failure of the blockchain step is raised to
\* the caller, as PINAIIntentSDK does.
AgentAfterChainRaise(sdk, failed) ==
    IF failed
    THEN [sdk EXCEPT
            !.pc = "done",
            !.logs = @ \o <<Log("error", "Blockchain interaction failed")>>,
            !.outcome = Raise("Exception")]
    ELSE AgentReturn([sdk EXCEPT
                        !.logs = @ \o <<Log("info",
                                            "Agent registered on blockchain")>>])

\* Lines 253-262: the end of the try block, or its except clause, which logs
\* and does not raise; then the return.
AgentAfterChain(sdk, failed) ==
    AgentReturn(
        [sdk EXCEPT
           !.logs =
              @ \o (IF failed
                    THEN <<Log("error", "Blockchain interaction failed"),
                           Log("warning",
                               "Continuing with API-only registration due to blockchain error")>>
                    ELSE <<Log("info", "Agent registered on blockchain")>>)])

\* The warnings of _truncate_string for name and description (the ticker of
\* the model is short).
TruncationWarnings(a) ==
    (IF Truncated(a.name) THEN <<Log("warning", "String truncated")>>
     ELSE <<>>)
    \o (IF Truncated(a.description)
        THEN <<Log("warning", "String truncated")>> ELSE <<>>)

\* Lines 186-259: the blockchain step.  A response without a truthy id ends
\* it before any chain call.
AgentCreateOnChain ==
    /\ agent_sdk.pc = "chain"
    /\ LET id == agent_sdk.response[1].id
       IN  IF id = None \/ id = Some(0)
           THEN agent_sdk' =
                   AgentAfterChain(
                       [agent_sdk EXCEPT
                          !.logs = @ \o <<Log("error",
                                "Failed to get agent ID from API response")>>],
                       TRUE)
           ELSE \E co \in ChainOutcomes :
                   LET owner == AgentOwner(agent_sdk.args)
                       made == ChainCallsMade(co, owner # None)
                       receipt == ChainReceipt(co, owner # None)
                   IN  agent_sdk' =
                          AgentAfterChain(
                              [agent_sdk EXCEPT
                                 !.calls = @ \o made,
                                 !.txs =
                                    IF Len(made) >= 5
                                    THEN @ \o <<AgentCreate(agent_sdk.args,
                                                            owner[1], id[1])>>
                                    ELSE @,
                                 !.receipt = receipt,
                                 !.logs =
                                    @ \o TruncationWarnings(agent_sdk.args)
                                      \o (IF receipt = "0"
                                          THEN <<Log("error",
                                                "Blockchain transaction failed")>>
                                          ELSE <<>>)],
                              receipt # "1")
    /\ UNCHANGED <<indexerVars, intent_sdk, pollVars>>

NextAgent ==
    \/ AgentPostRegister
    \/ AgentCreateOnChain

SpecAgent == InitAgent /\ [][NextAgent]_vars

\* ------------------------------------------------ PINAIAgentSDK: listening

\* Bounds.  A timestamp is one of 1..MaxStamp: the strings the code compares
\* with > are of one fixed format, so their order is the order of the moments
\* they name; 0 stands for None and for an absent created_at (both falsy).
\* The API answers one poll with at most MaxBatch messages.
MaxStamp == 3
MaxBatch == 2
Stamps == 1..MaxStamp
Sessions == {"s1", "s2"}

\* A message of a poll answer: created_at (0: absent) and session_id (""
\* : absent).
Messages == [created_at : 0..MaxStamp, session_id : {"", "s1"}]
\* What the API answers a poll with: a list of messages, or a JSON object.
PollAnswers ==
    {Value("list", b) : b \in SeqsUpTo(Messages, MaxBatch)}
       \cup {Value("dict", <<"detail">>)}

\* Lines 412-413: the _agent_info that _start makes of an agent_id (status ""
\* : the key is absent).
IdOnly(agent_id) == [status |-> "", id |-> Some(agent_id)]
\* not self._agent_info or "id" not in self._agent_info, negated.
HasId(agent_info) == agent_info # None /\ agent_info[1].id # None

\* Lines 48-54: the fields after construction.
Listening ==
    [agent_info |-> None, message_callback |-> "None",
     stop_polling |-> FALSE, polling_thread |-> "None",
     last_poll_timestamp |-> 0, session_id |-> "",
     personas_cache |-> [s \in Sessions |-> None]]
\* The polling thread before _start creates it.  since is the
\* since_timestamp of the last poll request (0: none yet), batch the
\* messages of the answer still to deliver.
NoThread == [pc |-> "unstarted", agent_id |-> None, since |-> 0, batch |-> <<>>]
PollerAlive == poll.pc \notin {"unstarted", "done"}

\* What one step did: its log records, how the call ended, the requests it
\* sent and the message it handed to the callback.
Effect(op, logs, outcome, requests, delivered) ==
    [op |-> op, logs |-> logs, outcome |-> outcome, requests |-> requests,
     delivered |-> delivered]

InitListening ==
    /\ NoIndexer
    /\ intent_sdk = "None"
    /\ agent_sdk = "None"
    /\ listener = Listening
    /\ poll = NoThread
    /\ sdk_caller = "idle"
    /\ sdk_eff = Effect("init", <<>>, NoOutcome, <<>>, None)

\* Lines 176-181 of register_agent: the answer of the API is saved as
\* _agent_info.
RegisterAgentSaved ==
    /\ sdk_caller = "idle"
    /\ \E answer \in Responses :
          /\ listener' = [listener EXCEPT !.agent_info = Some(answer)]
          /\ sdk_eff' = Effect("register_agent", <<>>, Return(answer),
                               <<>>, None)
    /\ UNCHANGED <<indexerVars, intent_sdk, agent_sdk, poll, sdk_caller>>

\* Mutant of StartFields: the callback is stored before the agent check.
StartFieldsStored(fields, on_message_callback, agent_id) ==
    IF agent_id = None /\ ~HasId(fields.agent_info)
    THEN [raised |-> TRUE,
          fields |-> [fields EXCEPT !.message_callback = on_message_callback]]
    ELSE [raised |-> FALSE,
          fields |-> [fields EXCEPT
                        !.agent_info = IF agent_id # None
                                       THEN Some(IdOnly(agent_id[1])) ELSE @,
                        !.message_callback = on_message_callback,
                        !.stop_polling = FALSE,
                        !.polling_thread = "thread"]]

\* Lines 411-423 of _start: the fields it leaves, and whether it raised
\* ValueError.
StartFields(fields, on_message_callback, agent_id) ==
    IF agent_id = None /\ ~HasId(fields.agent_info)
    THEN [raised |-> TRUE, fields |-> fields]
    ELSE [raised |-> FALSE,
          fields |-> [fields EXCEPT
                        !.agent_info = IF agent_id # None
                                       THEN Some(IdOnly(agent_id[1])) ELSE @,
                        !.message_callback = on_message_callback,
                        !.stop_polling = FALSE,
                        !.polling_thread = "thread"]]

Callbacks == {"on_message"}
StartAgentIds == {None, Some(5)}

\* _start (lines 400-427, blocking = False) where it raises.
ListenStartRefused ==
    /\ sdk_caller = "idle"
    /\ \E cb \in Callbacks, agent_id \in StartAgentIds :
          LET r == StartFields(listener, cb, agent_id)
          IN  /\ r.raised
              /\ listener' = r.fields
              /\ sdk_eff' = Effect("_start", <<>>, Raise("ValueError"),
                                   <<>>, None)
    /\ UNCHANGED <<indexerVars, intent_sdk, agent_sdk, poll, sdk_caller>>

\* _start (lines 400-427, blocking = False) where it starts the polling
\* thread.  The owner starts one polling thread at a time.
ListenStart ==
    /\ sdk_caller = "idle"
    /\ ~PollerAlive
    /\ \E cb \in Callbacks, agent_id \in StartAgentIds :
          LET r == StartFields(listener, cb, agent_id)
          IN  /\ ~r.raised
              /\ listener' = r.fields
              /\ poll' = [poll EXCEPT !.pc = "begin", !.agent_id = None,
                                      !.batch = <<>>]
              /\ sdk_eff' = Effect("_start",
                                   <<Log("info", "Started listening")>>,
                                   Return("None"), <<>>, None)
    /\ UNCHANGED <<indexerVars, intent_sdk, agent_sdk, sdk_caller>>

\* stop (lines 475-484) with no live polling thread: a warning.
ListenStopNoop ==
    /\ sdk_caller = "idle"
    /\ ~(listener.polling_thread # "None" /\ PollerAlive)
    /\ sdk_eff' = Effect("stop", <<Log("warning", "No active polling thread")>>,
                         Return("None"), <<>>, None)
    /\ UNCHANGED <<indexerVars, intent_sdk, agent_sdk, listener, poll,
                   sdk_caller>>

\* stop, lines 477-479: the flag is set and the join begins.
ListenStopSignal ==
    /\ sdk_caller = "idle"
    /\ listener.polling_thread # "None" /\ PollerAlive
    /\ listener' = [listener EXCEPT !.stop_polling = TRUE]
    /\ sdk_caller' = "joining"
    /\ sdk_eff' = Effect("stop", <<>>, NoOutcome, <<>>, None)
    /\ UNCHANGED <<indexerVars, intent_sdk, agent_sdk, poll>>

\* stop, lines 479-480: join(timeout=2.0) returns, the thread ended or not.
ListenStopReturn ==
    /\ sdk_caller = "joining"
    /\ sdk_caller' = "idle"
    /\ sdk_eff' = Effect("stop", <<Log("info", "Stopped listening")>>,
                         Return("None"), <<>>, None)
    /\ UNCHANGED <<indexerVars, intent_sdk, agent_sdk, listener, poll>>

\* _poll_messages, lines 355-367: the agent check, and the first timestamp
\* from the clock when none is set.
PollBegin ==
    /\ poll.pc = "begin"
    /\ IF ~HasId(listener.agent_info)
       THEN /\ poll' = [poll EXCEPT !.pc = "done"]
            /\ sdk_eff' = Effect("_poll_messages", <<>>, Raise("ValueError"),
                                 <<>>, None)
            /\ UNCHANGED listener
       ELSE /\ poll' = [poll EXCEPT !.pc = "check",
                                    !.agent_id = listener.agent_info[1].id]
            /\ sdk_eff' = Effect("_poll_messages", <<>>, NoOutcome, <<>>, None)
            /\ IF listener.last_poll_timestamp = 0
               THEN \E now \in Stamps :
                       listener' = [listener EXCEPT
                                      !.last_poll_timestamp = now]
               ELSE UNCHANGED listener
    /\ UNCHANGED <<indexerVars, intent_sdk, agent_sdk, sdk_caller>>

\* Line 369: the loop test.
PollCheck ==
    /\ poll.pc = "check"
    /\ poll' = [poll EXCEPT !.pc = IF listener.stop_polling
                                   THEN "done" ELSE "request"]
    /\ sdk_eff' = Effect("_poll_messages", <<>>,
                         IF listener.stop_polling THEN Return("None")
                         ELSE NoOutcome, <<>>, None)
    /\ UNCHANGED <<indexerVars, intent_sdk, agent_sdk, listener, sdk_caller>>

\* Mutant of PollFailed: the except clause gives the loop up.
PollFailedExits == "done"
\* Lines 394-398: where the thread goes after the except clause.
PollFailed == "sleep"

\* Lines 370-381 and 394-396: one poll request through _make_request (lines
\* 106-148), which logs and re-raises a failure.
PollRequest ==
    /\ poll.pc = "request"
    /\ \E ho \in HttpOutcomes, answer \in PollAnswers :
          LET data == [agent_id |-> poll.agent_id,
                       since_timestamp |-> listener.last_poll_timestamp]
              asked == [poll EXCEPT !.since = data.since_timestamp]
              deliver == /\ answer.type = "list"
                         /\ answer.items # <<>>
                         /\ listener.message_callback # "None"
          IN  IF ho # "ok"
              THEN /\ poll' = [asked EXCEPT !.pc = PollFailed]
                   /\ sdk_eff' =
                         Effect("_poll_messages",
                                <<Log("error", "Request error"),
                                  Log("error", "Error polling messages")>>,
                                NoOutcome, <<data>>, None)
              ELSE /\ poll' = IF deliver
                              THEN [asked EXCEPT !.pc = "deliver",
                                                 !.batch = answer.items]
                              ELSE [asked EXCEPT !.pc = "sleep"]
                   /\ sdk_eff' = Effect("_poll_messages", <<>>, NoOutcome,
                                        <<data>>, None)
    /\ UNCHANGED <<indexerVars, intent_sdk, agent_sdk, listener, sdk_caller>>

\* Mutant of NewerStamp: any created_at replaces the timestamp.
NewerStampAny(created_at, last) == created_at # 0
\* Lines 384-386: whether a message's created_at replaces the timestamp.
NewerStamp(created_at, last) ==
    created_at # 0 /\ (last = 0 \/ created_at > last)

\* Lines 382-392 and 394-396: the next message of the answer: the timestamp,
\* the session id, the callback, which returns or raises.
PollDeliver ==
    /\ poll.pc = "deliver"
    /\ \E raises \in BOOLEAN :
          LET message == Head(poll.batch)
              rest == Tail(poll.batch)
          IN  /\ listener' =
                    [listener EXCEPT
                       !.last_poll_timestamp =
                          IF NewerStamp(message.created_at, @)
                          THEN message.created_at ELSE @,
                       !.session_id =
                          IF message.session_id # ""
                          THEN message.session_id ELSE @]
              /\ IF raises
                 THEN /\ poll' = [poll EXCEPT !.pc = PollFailed,
                                              !.batch = <<>>]
                      /\ sdk_eff' =
                            Effect("_poll_messages",
                                   <<Log("error", "Error polling messages")>>,
                                   NoOutcome, <<>>, Some(message))
                 ELSE /\ poll' = [poll EXCEPT
                                    !.pc = IF rest = <<>> THEN "sleep"
                                           ELSE "deliver",
                                    !.batch = rest]
                      /\ sdk_eff' = Effect("_poll_messages", <<>>, NoOutcome,
                                           None, Some(message))
    /\ UNCHANGED <<indexerVars, intent_sdk, agent_sdk, sdk_caller>>

\* Line 398: time.sleep(self.polling_interval).
PollSleep ==
    /\ poll.pc = "sleep"
    /\ poll' = [poll EXCEPT !.pc = "check"]
    /\ sdk_eff' = Effect("_poll_messages", <<>>, NoOutcome, <<>>, None)
    /\ UNCHANGED <<indexerVars, intent_sdk, agent_sdk, listener, sdk_caller>>

PollMessages ==
    PollBegin \/ PollCheck \/ PollRequest \/ PollDeliver \/ PollSleep

NextListening ==
    \/ RegisterAgentSaved
    \/ ListenStartRefused
    \/ ListenStart
    \/ ListenStopNoop
    \/ ListenStopSignal
    \/ ListenStopReturn
    \/ PollMessages

SpecListening == InitListening /\ [][NextListening]_vars

\* ------------------------------------------------- PINAIAgentSDK: personas

\* The session_id argument of get_persona and send_message: "" for None.
SessionArgs == {""} \cup Sessions
\* A request about session sid, and whether the API answered it.
PersonaRequest(sid, ok) ==
    [method |-> "GET", endpoint |-> "api/sdk/get_persona_by_session",
     session_id |-> sid, ok |-> ok]
ReplyRequest(sid, ok) ==
    [method |-> "POST", endpoint |-> "api/sdk/reply_message",
     session_id |-> sid, ok |-> ok]
\* What a call did: the fields it leaves, its requests, its log records and
\* how it ended.
Called(fields, requests, logs, outcome) ==
    [fields |-> fields, requests |-> requests, logs |-> logs,
     outcome |-> outcome]
\* Lines 504-510 and 554-557: the session a call is about; "" where it raises.
SessionOf(fields, session_id) ==
    IF session_id = "" THEN fields.session_id ELSE session_id

\* Mutant of GetPersonaCall: the cache is not looked up.
GetPersonaUncached(fields, session_id, ho, answer) ==
    LET sid == SessionOf(fields, session_id)
    IN  IF sid = ""
        THEN Called(fields, <<>>, <<>>, Raise("ValueError"))
        ELSE IF ho # "ok"
        THEN Called(fields, <<PersonaRequest(sid, FALSE)>>,
                    <<Log("error", "Request error")>>,
                    Raise("RequestException"))
        ELSE Called([fields EXCEPT !.personas_cache[sid] = Some(answer)],
                    <<PersonaRequest(sid, TRUE)>>,
                    <<Log("info", "Retrieved persona")>>, Return(answer))

\* get_persona (lines 543-569): with the API's outcome ho and answer.
GetPersonaCall(fields, session_id, ho, answer) ==
    LET sid == SessionOf(fields, session_id)
    IN  IF sid = ""
        THEN Called(fields, <<>>, <<>>, Raise("ValueError"))
        ELSE IF fields.personas_cache[sid] # None
        THEN Called(fields, <<>>, <<>>, Return(fields.personas_cache[sid][1]))
        ELSE IF ho # "ok"
        THEN Called(fields, <<PersonaRequest(sid, FALSE)>>,
                    <<Log("error", "Request error")>>,
                    Raise("RequestException"))
        ELSE Called([fields EXCEPT !.personas_cache[sid] = Some(answer)],
                    <<PersonaRequest(sid, TRUE)>>,
                    <<Log("info", "Retrieved persona")>>, Return(answer))

\* Lines 524-541 of send_message: the persona's id, then the reply request
\* with the API's outcome ho.
SendReply(fields, sid, persona_info, requests, logs, ho) ==
    IF persona_info.id \in {None, Some(0)}
    THEN Called(fields, requests, logs, Raise("ValueError"))
    ELSE IF ho # "ok"
    THEN Called(fields, requests \o <<ReplyRequest(sid, FALSE)>>,
                logs \o <<Log("error", "Request error")>>,
                Raise("RequestException"))
    ELSE Called(fields, requests \o <<ReplyRequest(sid, TRUE)>>,
                logs \o <<Log("info", "Message sent")>>,
                Return(Response(None)))

\* send_message (lines 486-541): pho and answer are the API's outcome and
\* answer for the persona request, ho its outcome for the reply.
SendMessageCall(fields, session_id, pho, answer, ho) ==
    LET sid == SessionOf(fields, session_id)
        got == GetPersonaCall(fields, sid, pho, answer)
    IN  IF ~HasId(fields.agent_info) \/ sid = ""
        THEN Called(fields, <<>>, <<>>, Raise("ValueError"))
        ELSE IF fields.personas_cache[sid] # None
        THEN SendReply(fields, sid, fields.personas_cache[sid][1],
                       <<>>, <<>>, ho)
        ELSE IF got.outcome.kind = "raise"
        THEN Called(got.fields, got.requests,
                    got.logs \o <<Log("error", "Error getting persona info")>>,
                    Raise("ValueError"))
        ELSE SendReply([got.fields EXCEPT
                          !.personas_cache[sid] = got.outcome.value],
                       sid, got.outcome.value[1], got.requests, got.logs, ho)

\* The object with an agent or none, and the session of the last message
\* delivered or none.
InitPersona ==
    /\ NoIndexer
    /\ intent_sdk = "None"
    /\ agent_sdk = "None"
    /\ listener \in {[Listening EXCEPT !.agent_info = a, !.session_id = s] :
                       a \in {None, Some(IdOnly(5))}, s \in SessionArgs}
    /\ poll = NoThread
    /\ sdk_caller = "idle"
    /\ sdk_eff = Effect("init", <<>>, NoOutcome, <<>>, None)

\* One call of get_persona.
GetPersona ==
    /\ sdk_caller = "idle"
    /\ \E session_id \in SessionArgs, ho \in HttpOutcomes, answer \in Responses :
          LET c == GetPersonaCall(listener, session_id, ho, answer)
          IN  /\ listener' = c.fields
              /\ sdk_eff' = Effect("get_persona", c.logs, c.outcome,
                                   c.requests, None)
    /\ UNCHANGED <<indexerVars, intent_sdk, agent_sdk, poll, sdk_caller>>

\* One call of send_message.
SendMessage ==
    /\ sdk_caller = "idle"
    /\ \E session_id \in SessionArgs, pho \in HttpOutcomes,
          answer \in Responses, ho \in HttpOutcomes :
          LET c == SendMessageCall(listener, session_id, pho, answer, ho)
          IN  /\ listener' = c.fields
              /\ sdk_eff' = Effect("send_message", c.logs, c.outcome,
                                   c.requests, None)
    /\ UNCHANGED <<indexerVars, intent_sdk, agent_sdk, poll, sdk_caller>>

NextPersona == GetPersona \/ SendMessage

SpecPersona == InitPersona /\ [][NextPersona]_vars

\* ------------------------------------------------------------ properties
\* Steps of worker t, recognised from the state before and after.
DispatchStep(t) == pc[t] = "dispatch" /\ new_entries'[t] # new_entries[t]
LoopPcs == {"check", "read1", "read2", "filter", "fetch", "dispatch",
            "sleep", "backoff"}
\* The entry worker t is about to pass to _process_event.
NextName(t) == Head(new_entries[t])
NextEntry(t) == Entry(NextName(t))
\* Each entry's first topic as _process_event reads it (line 126), evaluated
\* once; no string for an entry without topics.
FirstTopicHex ==
    [name \in EntryNames |->
        IF Entry(name).topics = <<>> THEN <<>>
        ELSE Hex(Entry(name).topics[1])]
\* The first topic is present and is no key of the table.
UnknownSignature(table, name) ==
    Entry(name).topics # <<>> /\ ~HasKey(table, FirstTopicHex[name])
\* A known signature and every topic its handler decodes.
WellFormed(table, name) ==
    /\ Entry(name).topics # <<>>
    /\ HasKey(table, FirstTopicHex[name])
    /\ Len(Entry(name).topics)
          >= TopicsRead(Lookup(table, FirstTopicHex[name]))
\* The value of a big-endian byte string.
RECURSIVE BytesValue(_, _)
BytesValue(b, n) == IF n = 0 THEN 0 ELSE 256 * BytesValue(b, n - 1) + b[n]
\* A byte string written as hex digits, no prefix.
HexDigitsOf(b) == SubSeq(Hex(b), 3, 2 + 2 * Len(b))
\* The record a handler's except clause writes (lines 161, 199, 218).
HandlerErrorLogged(logs) ==
    \E i \in DOMAIN logs :
        logs[i].msg \in {"Error handling OrderCreated event",
                         "Error handling OrderMatched event",
                         "Error handling OrderCompleted event"}
\* Worker t dispatches an entry that _handle_order_matched handles to its
\* end.
MatchedStep(t) ==
    /\ DispatchStep(t)
    /\ eff'.handlers = <<"_handle_order_matched">>
    /\ ~HandlerErrorLogged(eff'.logs)
BidFailureLogged(logs) ==
    \E i \in DOMAIN logs :
        logs[i].msg \in {"Bid submission failed", "Error submitting bid"}

\* C1: the cursor (last_processed_block) never decreases: in every step, each
\* worker's cursor is at least what it was before the step.
C1_CursorNeverDecreases ==
    [][\A t \in Threads :
          last_processed_block'[t] >= last_processed_block[t]]_vars

\* C2: no exception ends the worker.  A worker inside its loop ends only at
\* the loop test with the stop flag set; a step in which an exception is
\* caught logs an error and goes to the backoff sleep; and the backoff sleep
\* is followed by the loop test of another iteration.
C2_WorkerSurvivesExceptions ==
    [][\A t \in Threads :
          /\ (pc[t] \in LoopPcs /\ pc'[t] = "done")
                => (pc[t] = "check" /\ stop_indexing)
          /\ (pc[t] \in LoopPcs /\ pc'[t] # pc[t] /\ eff'.by = t
                /\ eff'.op = "caught")
                => (pc'[t] = "backoff" /\ HasError(eff'.logs))
          /\ (pc[t] = "backoff" /\ pc'[t] # pc[t]) => pc'[t] = "check"]_vars

\* Witness of C2: a worker that caught an exception has slept its backoff and
\* stands at the loop test with the stop flag clear.
C2_Witness ==
    \E t \in Threads :
        eff.by = t /\ eff.op = "backoff" /\ pc[t] = "check" /\ ~stop_indexing

\* C3: a failing handler does not stop the batch.  Every dispatch step, and so
\* one whose handler logged an error, leaves _process_event without an
\* exception (no "Error in indexer", no backoff) and leaves exactly the later
\* entries of the batch to be dispatched next; the worker reaches the sleep
\* only with the batch empty.
C3_FailingHandlerKeepsBatch ==
    [][\A t \in Threads :
          /\ DispatchStep(t) =>
                /\ new_entries'[t] = Tail(new_entries[t])
                /\ pc'[t] = IF Tail(new_entries[t]) = <<>> THEN "sleep"
                            ELSE "dispatch"
                /\ \A i \in DOMAIN eff'.logs :
                      eff'.logs[i].msg # "Error in indexer"
          /\ pc'[t] = "sleep" => new_entries'[t] = <<>>]_vars

\* Witness of C3: a handler has just logged an error and the worker is about
\* to dispatch the next entry of the same batch.
C3_Witness ==
    \E t \in Threads :
        /\ eff.by = t /\ eff.op = "dispatch"
        /\ eff.handlers # <<>> /\ HasError(eff.logs)
        /\ pc[t] = "dispatch" /\ new_entries[t] # <<>>

\* C4: a decode failure does not crash the poller.  The step in which a
\* handler fails to decode its entry leaves the worker in its loop, the
\* worker goes from the sleep to the next loop test, and in a later iteration
\* a well-formed entry is passed to the handler of its signature.
C4_DecodeFailureThenDispatch ==
    [][\A t \in Threads :
          /\ (DispatchStep(t) /\ DecodeFailure(event_signatures, NextName(t)))
                => pc'[t] \in {"dispatch", "sleep"}
          /\ (after_failure[t] # "no" /\ pc[t] = "sleep" /\ pc'[t] # pc[t])
                => pc'[t] = "check"
          /\ (DispatchStep(t) /\ after_failure[t] = "resumed"
                /\ WellFormed(event_signatures, NextName(t)))
                => eff'.handlers =
                      <<Lookup(event_signatures,
                               FirstTopicHex[NextName(t)])>>]_vars

\* Witness of C4: a worker that had a decode failure in an earlier iteration
\* has just passed a well-formed OrderCreated entry to its handler, which
\* posted the bid.
C4_Witness ==
    \E t \in Threads :
        /\ after_failure[t] = "resumed"
        /\ eff.by = t /\ eff.op = "dispatch" /\ eff.entry = "Created"
        /\ eff.handlers = <<"_handle_order_created">>
        /\ Len(eff.posts) = 1

\* C5: an entry whose first topic is no key of the signature table is
\* dispatched as a no-op: no handler, no chain read, no POST, no error and no
\* exception, and no field of the indexer nor the cursor changes.
C5_UnknownSignatureNoop ==
    [][\A t \in Threads :
          (DispatchStep(t) /\ UnknownSignature(event_signatures, NextName(t)))
             => /\ eff'.handlers = <<>>
                /\ eff'.calls = <<>>
                /\ eff'.posts = <<>>
                /\ ~HasError(eff'.logs)
                /\ pc'[t] # "backoff"
                /\ UNCHANGED <<indexerFields, last_processed_block>>]_vars

\* Witness of C5: an entry with an unknown signature has just been dispatched.
C5_Witness ==
    \E t \in Threads :
        /\ eff.by = t /\ eff.op = "dispatch" /\ eff.entry = "Unknown"
        /\ UnknownSignature(event_signatures, eff.entry)

\* C6: an entry with no topics is dispatched as a no-op: no handler, no chain
\* read, no POST, no exception reaches the loop (no "Error in indexer", no
\* backoff), and the rest of the batch stays to be dispatched.
C6_EmptyTopicsNoop ==
    [][\A t \in Threads :
          (DispatchStep(t) /\ NextEntry(t).topics = <<>>)
             => /\ eff'.handlers = <<>>
                /\ eff'.calls = <<>>
                /\ eff'.posts = <<>>
                /\ \A i \in DOMAIN eff'.logs :
                      eff'.logs[i].msg # "Error in indexer"
                /\ pc'[t] # "backoff"
                /\ new_entries'[t] = Tail(new_entries[t])
                /\ UNCHANGED <<indexerFields, last_processed_block>>]_vars

\* Witness of C6: an entry with no topics has just been dispatched and the
\* next entry of its batch is about to be.
C6_Witness ==
    \E t \in Threads :
        /\ eff.by = t /\ eff.op = "dispatch" /\ eff.entry = "Empty"
        /\ pc[t] = "dispatch" /\ new_entries[t] # <<>>

\* C7: the dispatch of a well-formed OrderCreated entry issues exactly one
\* POST, to /bid, with orderId the integer value of topic 1, userId "0x"
\* followed by the low 20 bytes of topic 2, agentId 0 and amount 100.
C7_OrderCreatedPostsBid ==
    [][\A t \in Threads :
          (DispatchStep(t)
             /\ WellFormed(event_signatures, NextName(t))
             /\ Lookup(event_signatures, FirstTopicHex[NextName(t)])
                   = "_handle_order_created")
             => /\ Len(eff'.posts) = 1
                /\ eff'.posts[1].path = "/bid"
                /\ eff'.posts[1].json =
                      [orderId |-> BytesValue(NextEntry(t).topics[2], 32),
                       userId |-> <<"0", "x">> \o
                          HexDigitsOf(LowBytes(NextEntry(t).topics[3], 20)),
                       agentId |-> 0,
                       amount |-> 100]]_vars

\* Witness of C7: the bid for order 5 of user 0x...0abc has just been posted
\* by a worker whose cursor has advanced.
C7_Witness ==
    \E t \in Threads :
        /\ eff.by = t /\ eff.op = "dispatch" /\ eff.entry = "Created"
        /\ last_processed_block[t] > 0
        /\ Len(eff.posts) = 1
        /\ eff.posts[1].json.orderId = 5
        /\ LastChars(eff.posts[1].json.userId, 4) = <<"0", "a", "b", "c">>

\* C8: bid delivery is at most once.  No step issues more than one POST; a
\* dispatch whose POST failed (non-2xx, or an exception) made exactly one
\* attempt, raised nothing into the loop and took the entry off the batch;
\* and a batch never gets an entry back: it changes only by losing its
\* first entry, by a fetch, or when its thread is started anew.
C8_BidAtMostOnce ==
    [][/\ Len(eff'.posts) <= 1
       /\ \A t \in Threads :
             /\ (DispatchStep(t) /\ BidFailureLogged(eff'.logs))
                   => /\ Len(eff'.posts) = 1
                      /\ new_entries'[t] = Tail(new_entries[t])
                      /\ pc'[t] \in {"dispatch", "sleep"}
             /\ new_entries'[t] # new_entries[t]
                   => \/ pc[t] = "fetch"
                      \/ pc'[t] = "begin"
                      \/ /\ new_entries[t] # <<>>
                         /\ new_entries'[t] = Tail(new_entries[t])]_vars

\* Witness of C8: a POST has just failed and the worker has gone on.
C8_Witness ==
    \E t \in Threads :
        /\ eff.by = t /\ eff.op = "dispatch"
        /\ BidFailureLogged(eff.logs) /\ Len(eff.posts) = 1
        /\ pc[t] \in {"dispatch", "sleep"}

\* C9: an iteration whose height read is not above the cursor goes back to
\* the loop test: its only chain call is that read, it creates no filter,
\* fetches and dispatches nothing, and the cursor stays.
C9_NoAdvanceNoFetch ==
    [][\A t \in Threads :
          (pc[t] = "read1" /\ pc'[t] # pc[t] /\ eff'.op = "read1"
             /\ chainHeight <= last_processed_block[t])
             => /\ pc'[t] = "check"
                /\ eff'.calls = <<"get_block_number">>
                /\ eff'.posts = <<>> /\ eff'.handlers = <<>>
                /\ UNCHANGED <<last_processed_block, filter_changes,
                               new_entries, indexerFields>>]_vars

\* Witness of C9: a worker whose cursor has advanced has just read a height
\* that is not above it, and is back at the loop test.
C9_Witness ==
    \E t \in Threads :
        /\ eff.by = t /\ eff.op = "read1" /\ pc[t] = "check"
        /\ last_processed_block[t] > 0
        /\ chainHeight <= last_processed_block[t]

\* C10: when stop() returns, the worker is not running or a warning was
\* logged.
C10_StopReturnsStoppedOrWarned ==
    [][(caller = "joining" /\ caller' = "idle")
          => \/ ~IsAlive(indexer_thread)'
             \/ \E i \in DOMAIN eff'.logs : eff'.logs[i].level = "warning"]_vars

\* A call of start() or stop() on the caller's thread, recognised from the
\* record of the step.
CallerStep(op) == eff' # eff /\ eff'.by = "caller" /\ eff'.op = op
HasWarning(logs) == \E i \in DOMAIN logs : logs[i].level = "warning"

\* C11: a stop() called while no worker is running logs a warning.
C11_StopWhenIdleWarns ==
    [][(caller = "idle" /\ ~IsAlive(indexer_thread) /\ CallerStep("stop"))
          => HasWarning(eff'.logs)]_vars

\* C12: with the chain client or the contract handle absent, start() creates
\* no thread, raises nothing, logs a warning and leaves indexer_thread and
\* the stop flag as they were; so no thread of such an indexer ever runs.
C12_StartRefusedWithoutComponents ==
    [][(~(components.web3 /\ components.contract) /\ CallerStep("start"))
          => /\ HasWarning(eff'.logs)
             /\ ~HasError(eff'.logs)
             /\ eff'.calls = <<>>
             /\ UNCHANGED <<indexerFields, pc>>
             /\ \A t \in Threads : pc'[t] = "unused"]_vars

\* Witness of C12: start() has just returned with its warning on an indexer
\* built without a chain client, and no thread exists.
C12_Witness ==
    /\ ~components.web3
    /\ eff.by = "caller" /\ eff.op = "start" /\ HasWarning(eff.logs)
    /\ indexer_thread = "None"
    /\ \A t \in Threads : pc[t] = "unused"

\* C13: at most one worker is running the poller loop in every reachable
\* state, whatever the sequence of start() and stop() calls.
C13_AtMostOneWorker ==
    Cardinality({t \in Threads : pc[t] \in LoopPcs}) <= 1

\* C14: a batch is dispatched sequentially in the order the chain client
\* returned it.  The batch is what get_filter_changes returned, in that
\* order; every dispatch step processes the first entry left, with all the
\* chain reads and the POST of its one handler inside the step, and leaves
\* the entries after it.
C14_BatchDispatchedInOrder ==
    [][\A t \in Threads :
          /\ (pc[t] = "fetch" /\ pc'[t] \in {"dispatch", "sleep"})
                => new_entries'[t] = filter_changes[t]
          /\ DispatchStep(t)
                => /\ eff'.by = t /\ eff'.op = "dispatch"
                   /\ eff'.entry = Head(new_entries[t])
                   /\ new_entries'[t] = Tail(new_entries[t])
                   /\ \/ eff'.handlers = <<>>
                      \/ /\ HasKey(event_signatures,
                                   FirstTopicHex[NextName(t)])
                         /\ eff'.handlers =
                               <<Lookup(event_signatures,
                                        FirstTopicHex[NextName(t)])>>
                   /\ (eff'.posts # <<>> \/ eff'.calls # <<>>)
                         => eff'.handlers # <<>>]_vars

\* Witness of C14: of a batch of two, the OrderCreated entry has been
\* dispatched, its POST made, and the OrderMatched entry after it is next.
C14_Witness ==
    \E t \in Threads :
        /\ eff.by = t /\ eff.op = "dispatch" /\ eff.entry = "Created"
        /\ Len(eff.posts) = 1
        /\ pc[t] = "dispatch" /\ new_entries[t] = <<"Matched">>

\* C15: cancellation is never mid-iteration.  With the stop flag set, a
\* dispatch step still completes its entry and leaves the rest of the batch to
\* be dispatched; a worker leaves its loop from the loop test only; at the
\* loop test with the flag set it ends without a chain call; and a worker
\* that has ended takes no further step until a start().
C15_NoMidIterationCancel ==
    [][\A t \in Threads :
          /\ (stop_indexing /\ DispatchStep(t))
                => /\ new_entries'[t] = Tail(new_entries[t])
                   /\ pc'[t] = IF Tail(new_entries[t]) = <<>> THEN "sleep"
                               ELSE "dispatch"
          /\ (pc[t] \in LoopPcs \ {"check"}) => pc'[t] \in LoopPcs
          /\ (pc[t] = "check" /\ stop_indexing /\ pc'[t] # pc[t])
                => (pc'[t] = "done" /\ eff'.by = t /\ eff'.calls = <<>>)
          /\ pc[t] = "done" => pc'[t] \in {"done", "begin"}]_vars

\* Witness of C15: with the stop flag set, a worker has just dispatched an
\* entry of its batch and is about to dispatch the next one.
C15_Witness ==
    \E t \in Threads :
        /\ stop_indexing /\ caller = "joining"
        /\ eff.by = t /\ eff.op = "dispatch"
        /\ pc[t] = "dispatch" /\ new_entries[t] # <<>>

\* C16: once stop() has set the stop flag, and with no start() before the
\* worker has ended, a running worker eventually ends, wherever in its loop
\* it is, provided each of its calls returns.
C16_StopTerminatesWorker ==
    \A t \in Threads : (stop_indexing /\ IsAlive(t)) ~> ~IsAlive(t)

\* Witness of C16: a worker has just found the stop flag set at its loop test
\* and ended, after an iteration that advanced the cursor.
C16_Witness ==
    \E t \in Threads :
        /\ stop_indexing
        /\ eff.by = t /\ eff.op = "check" /\ pc[t] = "done"
        /\ last_processed_block[t] > 0

\* C17: stop() always returns: a caller waiting in the join is eventually
\* back, with no assumption on the worker, and the step on which stop()
\* returns leaves every worker where it was.
C17_StopAlwaysReturns ==
    /\ (caller = "joining") ~> (caller = "idle")
    /\ [][(caller = "joining" /\ caller' = "idle")
             => UNCHANGED <<indexerFields, workerVars>>]_vars

\* Witness of C17: stop() has returned and the worker it signalled is still
\* running.
C17_Witness ==
    /\ caller = "idle"
    /\ eff.by = "caller" /\ eff.op = "stop_return"
    /\ IsAlive(indexer_thread) /\ stop_indexing

\* A get_filter_changes call of worker t that returned.
FetchStep(t) == pc[t] = "fetch" /\ pc'[t] \in {"dispatch", "sleep"}

\* C18: the filter is established once: a worker that has created a filter
\* in its run creates no other.
C18_FilterCreatedOnce ==
    [][\A t \in Threads :
          (pc[t] = "filter" /\ pc'[t] = "fetch") => filters[t] = "none"]_vars

\* C19: each fetch returns all the entries accumulated since the previous
\* one: the batch a get_filter_changes call returns holds every entry the
\* contract emitted since the worker started that has not been passed to the
\* dispatcher.
C19_FetchReturnsAllEmitted ==
    [][\A t \in Threads :
          FetchStep(t) => Len(new_entries'[t]) = owed[t]]_vars

\* C20: no entry is passed twice to the dispatcher by one worker run.  An
\* entry enters a worker's filter once, in the block that emits it, behind
\* the entries already there; a fetch moves the filter's entries to the
\* batch and empties the filter; a dispatch takes the first entry off the
\* batch; and neither filter nor batch changes in another way, but for being
\* emptied.
C20_NoEntryTwice ==
    [][\A t \in Threads :
          /\ filter_changes'[t] # filter_changes[t]
                => \/ filter_changes'[t] = <<>>
                   \/ /\ pc[t] = "fetch" /\ pc'[t] = "fetch"
                      /\ Len(filter_changes'[t])
                            = Len(filter_changes[t]) + emitted' - emitted
                      /\ SubSeq(filter_changes'[t], 1, Len(filter_changes[t]))
                            = filter_changes[t]
          /\ FetchStep(t)
                => /\ new_entries'[t] = filter_changes[t]
                   /\ filter_changes'[t] = <<>>
          /\ new_entries'[t] # new_entries[t]
                => \/ FetchStep(t)
                   \/ new_entries'[t] = <<>>
                   \/ /\ pc[t] = "dispatch" /\ eff'.by = t
                      /\ eff'.op = "dispatch"
                      /\ eff'.entry = Head(new_entries[t])
                      /\ new_entries'[t] = Tail(new_entries[t])
          /\ (pc[t] = "dispatch" /\ eff' # eff /\ eff'.by = t)
                => new_entries'[t] # new_entries[t]]_vars

\* Witness of C20: a worker in a later iteration of its run, after a batch
\* of an earlier one, has just dispatched an entry that failed in its handler.
C20_Witness ==
    \E t \in Threads :
        /\ filters[t] = "created" /\ owed[t] = 0 /\ emitted = MaxLog
        /\ eff.by = t /\ eff.op = "dispatch" /\ HasError(eff.logs)

\* C21: a handler that fails leaves no partial state: a dispatch step in
\* which a handler's except clause ran (the topics could not be decoded, or
\* the getOrder read-back failed) leaves current_order_id and current_room_id
\* as they were before the entry was dispatched.
C21_FailedHandlerKeepsIds ==
    [][\A t \in Threads :
          (DispatchStep(t) /\ HandlerErrorLogged(eff'.logs))
             => /\ current_order_id' = current_order_id
                /\ current_room_id' = current_room_id]_vars

\* Witness of C21: the read-back of order 7 failed in _handle_order_matched
\* while current_order_id held order 1, and it still holds order 1.
C21_Witness ==
    /\ eff.op = "dispatch"
    /\ eff.entry = "Matched"
    /\ eff.calls = <<7>>
    /\ HandlerErrorLogged(eff.logs)
    /\ current_order_id = Some(1)
    /\ current_room_id = None

\* C22: current_order_id is empty at first; a dispatch step in which
\* _handle_order_matched succeeds leaves in it the order id held by topic 1 of
\* that entry; and no other step changes it.  Hence it is at any time empty
\* or the id of the most recent successfully handled OrderMatched entry.
C22_OrderIdIsLastMatched ==
    /\ current_order_id = None
    /\ [][/\ \A t \in Threads :
               MatchedStep(t)
                  => current_order_id'
                        = Some(BytesValue(NextEntry(t).topics[2], 32))
          /\ current_order_id' # current_order_id
                  => \E t \in Threads : MatchedStep(t)]_vars

\* Witness of C22: the contract has emitted all its entries, an OrderMatched
\* entry of order 1 has just been handled, and current_order_id holds 1.
C22_Witness ==
    /\ eff.op = "dispatch"
    /\ eff.entry = "MatchedOther"
    /\ ~HandlerErrorLogged(eff.logs)
    /\ current_order_id = Some(1)
    /\ emitted = MaxLog

\* C23: only OrderCreated produces outbound HTTP calls.  A dispatch step that
\* enters _handle_order_matched or _handle_order_completed with topic 1
\* present makes one getOrder read, of the order in topic 1, and no POST; a
\* step that issues a POST is the dispatch of an entry handled by
\* _handle_order_created and issues one.  So there are never more POSTs than
\* OrderCreated entries dispatched.
C23_OnlyOrderCreatedPosts ==
    [][/\ \A t \in Threads :
             (/\ DispatchStep(t)
              /\ eff'.handlers \in {<<"_handle_order_matched">>,
                                     <<"_handle_order_completed">>}
              /\ Len(NextEntry(t).topics) >= 2)
                => /\ eff'.calls = <<BytesValue(NextEntry(t).topics[2], 32)>>
                   /\ eff'.posts = <<>>
       /\ (eff' # eff /\ eff'.posts # <<>>)
             => /\ \E t \in Threads : DispatchStep(t)
                /\ eff'.handlers = <<"_handle_order_created">>
                /\ Len(eff'.posts) = 1]_vars

\* Witness of C23: an OrderCompleted entry has been handled to its end, with
\* one getOrder read and no POST.
C23_Witness ==
    /\ eff.op = "dispatch"
    /\ eff.entry = "Completed"
    /\ eff.handlers = <<"_handle_order_completed">>
    /\ ~HasError(eff.logs)
    /\ eff.calls = <<7>>
    /\ eff.posts = <<>>

\* C24: dispatching an AddressesTracked entry, whatever topics follow its
\* signature, enters _handle_addresses_tracked and ends without an error
\* record, a chain read or a POST, and leaves current_order_id,
\* current_room_id, base_url and every cursor unchanged.
C24_AddressesTrackedNoop ==
    [][\A t \in Threads :
          (/\ DispatchStep(t)
           /\ FirstTopicHex[NextName(t)] = DigestHex[AddressesTracked])
             => /\ eff'.handlers = <<"_handle_addresses_tracked">>
                /\ ~HasError(eff'.logs)
                /\ eff'.calls = <<>>
                /\ eff'.posts = <<>>
                /\ pc'[t] \in {"dispatch", "sleep"}
                /\ UNCHANGED <<current_order_id, current_room_id, base_url,
                               last_processed_block>>]_vars

\* Witness of C24: an AddressesTracked entry with the signature topic alone
\* has been dispatched while current_order_id held order 7.
C24_Witness ==
    /\ eff.op = "dispatch"
    /\ eff.entry = "TrackedBare"
    /\ eff.handlers = <<"_handle_addresses_tracked">>
    /\ current_order_id = Some(7)

\* C25: the event signature table is fixed after construction.  In every
\* reachable state its keys are the digests, four different ones, of the
\* OrderCreated, OrderMatched, AddressesTracked and OrderCompleted
\* signatures, each bound to the handler of its event; and no step changes
\* the table.
C25_SignatureTableFixed ==
    /\ [](/\ DOMAIN event_signatures
                = {OrderCreated, OrderMatched, AddressesTracked,
                   OrderCompleted}
           /\ Cardinality({DigestHex[k] : k \in DOMAIN event_signatures}) = 4
           /\ event_signatures[OrderCreated] = "_handle_order_created"
           /\ event_signatures[OrderMatched] = "_handle_order_matched"
           /\ event_signatures[AddressesTracked]
                = "_handle_addresses_tracked"
           /\ event_signatures[OrderCompleted] = "_handle_order_completed")
    /\ [][event_signatures' = event_signatures]_vars

\* Witness of C25: the indexer has been started and stopped; its worker has
\* polled, dispatched entries to _handle_order_created and
\* _handle_order_matched, and ended; the table is the one __init__ built.
C25_Witness ==
    /\ stop_indexing
    /\ caller = "idle"
    /\ \E t \in Threads : pc[t] = "done"
    /\ base_url = "http://localhost:3000"
    /\ current_order_id = Some(7)
    /\ event_signatures = SignatureTable

C28_ConfirmedThenRegisteredOnce ==
    (/\ intent_sdk.pc = "done"
     /\ intent_sdk.blockchain
     /\ intent_sdk.receipt = "1")
       => /\ Len(intent_sdk.txs) = 1
          /\ intent_sdk.txs[1].owner =
                (IF intent_sdk.args.agent_owner = "" THEN AccountAddress
                 ELSE OwnerChecksum)
          /\ Len(intent_sdk.requests) = 1
          /\ intent_sdk.requests[1].method = "POST"
          /\ intent_sdk.requests[1].endpoint = "/register_agent"
          /\ intent_sdk.requests[1].json.name = intent_sdk.args.name
          /\ intent_sdk.response # None
                => /\ intent_sdk.outcome.kind = "return"
                   /\ intent_sdk.outcome.value = intent_sdk.response

\* Witness of C28: a call without agent_owner ended after a confirmed
\* transaction for the account's address and returned the API's answer.
C28_Witness ==
    /\ intent_sdk.pc = "done"
    /\ intent_sdk.blockchain
    /\ intent_sdk.receipt = "1"
    /\ intent_sdk.args.agent_owner = ""
    /\ intent_sdk.txs[1].owner = AccountAddress
    /\ intent_sdk.outcome = Return(Response(Some(42)))

\* The inputs C29 calls invalid.
IntentInvalid(a) ==
    \/ a.name = ""
    \/ a.description = ""
    \/ a.api_endpoint = ""
    \/ a.capabilities.items = <<>>
    \/ a.capabilities.type # "list"
    \/ a.pricing_model.items = <<>>
    \/ a.pricing_model.type # "dict"
    \/ a.availability < 0
    \/ a.availability > 10
    \/ a.response_time <= 0

\* C29: PINAIIntentSDK.register_agent with an invalid input (an empty name,
\* description or api_endpoint; capabilities empty or no list; pricing_model
\* empty or no dict; availability outside [0, 1]; response_time <= 0) raises
\* ValidationError before any side effect: once the validation has run the
\* call has ended with that exception, and it made no chain call, sent no
\* transaction and issued no HTTP request.
C29_InvalidInputsRaiseFirst ==
    (/\ intent_sdk.pc # "called"
     /\ IntentInvalid(intent_sdk.args))
       => /\ intent_sdk.pc = "done"
          /\ intent_sdk.outcome = Raise("ValidationError")
          /\ intent_sdk.calls = <<>>
          /\ intent_sdk.txs = <<>>
          /\ intent_sdk.requests = <<>>

\* Witness of C29: a call on an SDK with blockchain enabled whose only
\* invalid input is a response_time of 0 has ended with ValidationError.
C29_Witness ==
    /\ intent_sdk.pc = "done"
    /\ intent_sdk.blockchain
    /\ intent_sdk.args.response_time = 0
    /\ ValidationFailure(intent_sdk.args) = "response_time must be positive"
    /\ intent_sdk.outcome = Raise("ValidationError")

\* C30: PINAIAgentSDK.register_agent never fails because of the blockchain
\* step.  Once the API has answered the registration, _agent_info is that
\* answer; when the call has ended it returned that answer, whatever the
\* blockchain step did; and a blockchain step that failed (no id in the
\* answer, an exception of a chain call, a receipt whose status is not 1)
\* left the error record of the except clause, followed by its warning.
C30_ChainFailureNeverRaises ==
    agent_sdk.response # None
       => /\ agent_sdk.agent_info = agent_sdk.response
          /\ agent_sdk.pc = "done"
                => /\ agent_sdk.outcome = Return(agent_sdk.response[1])
                   /\ (agent_sdk.blockchain /\ agent_sdk.receipt # "1")
                         => \E i, j \in DOMAIN agent_sdk.logs :
                               /\ agent_sdk.logs[i]
                                    = Log("error",
                                          "Blockchain interaction failed")
                               /\ agent_sdk.logs[j].level = "warning"
                               /\ j = i + 1

\* Witness of C30: the transaction of a registration came back with status
\* 0, and the call returned the API's answer, which replaced the earlier
\* _agent_info.
C30_Witness ==
    /\ agent_sdk.pc = "done"
    /\ agent_sdk.blockchain
    /\ agent_sdk.receipt = "0"
    /\ Len(agent_sdk.txs) = 1
    /\ agent_sdk.outcome = Return(Response(Some(42)))
    /\ agent_sdk.agent_info = Some(Response(Some(42)))

\* C31: every loop iteration sleeps before the next height check: a worker
\* comes back to the loop test, from anywhere in its loop, only out of the
\* poll-interval sleep or the error backoff.
C31_SleepBeforeNextCheck ==
    [][\A t \in Threads :
          (pc[t] \in LoopPcs \ {"check"} /\ pc'[t] = "check")
             => pc[t] \in {"sleep", "backoff"}]_vars

\* C32: a stop request is never lost: a worker that is still running when
\* stop() has returned with the flag set eventually ends, whatever the
\* caller does afterwards, provided each of the worker's calls returns.
C32_StopRequestNotLost ==
    \A t \in Threads :
        (stop_indexing /\ caller = "idle" /\ IsAlive(t)) ~> pc[t] = "done"

\* C33: a failed fetch leaves the cursor at its previous value, a height
\* the chain has passed: when creating the filter or get_filter_changes
\* raises, on a chain that only grows, the cursor is afterwards below the
\* chain height, so that the next height check passes without a new block.
C33_FailedFetchKeepsCursor ==
    [][\A t \in Threads :
          (/\ pc[t] \in {"filter", "fetch"}
           /\ pc'[t] = "backoff")
             => last_processed_block'[t] < chainHeight']_vars

\* C34: in PINAIIntentSDK.register_agent with blockchain enabled the HTTP
\* register request comes only after the confirmation of the transaction
\* with status 1: a request is issued only when the receipt had status 1,
\* and after every chain call; and a call whose blockchain step failed has
\* ended with IntentMatchError and without a request.
C34_RegisterOnlyAfterConfirmation ==
    intent_sdk.blockchain
       => /\ (intent_sdk.requests # <<>> \/ intent_sdk.pc = "http")
                => /\ intent_sdk.receipt = "1"
                   /\ SubSeq(intent_sdk.calls, 1, Len(ChainCallOrder))
                         = ChainCallOrder
                   /\ Len(intent_sdk.txs) = 1
          /\ (intent_sdk.calls # <<>> /\ intent_sdk.receipt # "1")
                => /\ intent_sdk.pc = "done"
                   /\ intent_sdk.outcome = Raise("IntentMatchError")
                   /\ intent_sdk.requests = <<>>

\* Witness of C34: the transaction was sent and its receipt came with
\* status 0; the call ended with IntentMatchError and no request.
C34_Witness ==
    /\ intent_sdk.blockchain
    /\ intent_sdk.pc = "done"
    /\ Len(intent_sdk.txs) = 1
    /\ intent_sdk.receipt = "0"
    /\ intent_sdk.outcome = Raise("IntentMatchError")
    /\ intent_sdk.requests = <<>>

\* The positions of the polling thread inside the while loop of lines 369-398.
PollLoopPcs == {"check", "request", "deliver", "sleep"}
\* A step of the polling thread in which the except clause of lines 394-396
\* caught an exception of the poll request or of the callback.
PollExceptionCaught ==
    /\ poll.pc \in {"request", "deliver"}
    /\ sdk_eff'.op = "_poll_messages"
    /\ HasError(sdk_eff'.logs)

\* C35: the polling thread leaves its loop only at the loop test with the stop
\* flag set; a step in which the poll request or the callback raised goes to
\* the sleep of polling_interval, the sleep goes to the loop test, and the
\* loop test with the flag clear goes to the next poll request.
C35_PollingEndsOnlyOnStop ==
    [][/\ (poll.pc \in PollLoopPcs /\ poll'.pc = "done")
             => (poll.pc = "check" /\ listener.stop_polling)
       /\ PollExceptionCaught => poll'.pc = "sleep"
       /\ (poll.pc = "sleep" /\ poll' # poll) => poll'.pc = "check"
       /\ (poll.pc = "check" /\ poll' # poll /\ ~listener.stop_polling)
             => poll'.pc = "request"]_vars
\* The callback has raised on a message, the exception was logged, and the
\* thread is at its sleep with the stop flag clear.
C35_Witness ==
    /\ poll.pc = "sleep"
    /\ sdk_eff.op = "_poll_messages"
    /\ sdk_eff.delivered # None
    /\ HasError(sdk_eff.logs)
    /\ ~listener.stop_polling

\* A step of the polling thread that sends a poll request (lines 372-379).
PollRequestStep == poll.pc = "request" /\ poll'.pc # "request"

\* C36: _last_poll_timestamp never decreases.  Once the polling thread has
\* set it, it changes only in the delivery of a message whose created_at is
\* strictly greater, and to that created_at; every poll request sends the
\* current timestamp as since_timestamp, which is greater than or equal to
\* the one of the request before.
C36_PollTimestampNeverDecreases ==
    [][/\ listener'.last_poll_timestamp >= listener.last_poll_timestamp
       /\ listener'.last_poll_timestamp # listener.last_poll_timestamp
             => \/ /\ poll.pc = "begin"
                   /\ listener.last_poll_timestamp = 0
                \/ /\ poll.pc = "deliver"
                   /\ sdk_eff'.delivered # None
                   /\ sdk_eff'.delivered[1].created_at
                         = listener'.last_poll_timestamp
                   /\ sdk_eff'.delivered[1].created_at
                         > listener.last_poll_timestamp
       /\ PollRequestStep
             => /\ poll'.since = listener.last_poll_timestamp
                /\ poll'.since >= poll.since
                /\ sdk_eff'.requests
                      = <<[agent_id |-> poll.agent_id,
                           since_timestamp |-> poll'.since]>>]_vars
\* A delivered message has raised the timestamp above the since_timestamp of
\* the poll that fetched it.
C36_Witness ==
    /\ sdk_eff.op = "_poll_messages"
    /\ sdk_eff.delivered # None
    /\ poll.since # 0
    /\ sdk_eff.delivered[1].created_at = listener.last_poll_timestamp
    /\ listener.last_poll_timestamp > poll.since

\* A step in which the polling thread hands a message to the callback (line
\* 392).
CallbackStep == poll.pc = "deliver" /\ poll'.batch # poll.batch
\* stop() has set the flag and returned, and _start() has not been called
\* since: _start alone clears the flag (line 420).
StopReturned == listener.stop_polling /\ sdk_caller = "idle"

\* C37: after stop() has returned and until a later _start(), the polling
\* thread hands no message to the callback.
C37_NoCallbackAfterStop ==
    [][StopReturned => ~CallbackStep]_vars

\* A step that is a call of _start; it was given no agent_id when it leaves
\* _agent_info as it was without an id (an agent_id is stored by line 413).
StartStep == sdk_eff'.op = "_start"
StartWithoutAgent ==
    /\ StartStep
    /\ ~HasId(listener.agent_info)
    /\ listener'.agent_info = listener.agent_info

\* C38: _start with no agent_id and no registered agent raises ValueError and
\* changes nothing: the fields (callback, stop flag, thread) and the polling
\* thread are as before; and _start raises in no other case.
C38_StartWithoutAgentRefused ==
    [][/\ StartWithoutAgent
             => /\ sdk_eff'.outcome = Raise("ValueError")
                /\ listener' = listener
                /\ poll' = poll
       /\ (StartStep /\ sdk_eff'.outcome.kind = "raise")
             => StartWithoutAgent /\ listener' = listener /\ poll' = poll]_vars
\* _start has been refused after an earlier stop(): the flag is still set
\* and the earlier polling thread, ended, is the only one.
C38_Witness ==
    /\ sdk_eff.op = "_start"
    /\ sdk_eff.outcome = Raise("ValueError")
    /\ ~HasId(listener.agent_info)
    /\ listener.stop_polling
    /\ poll.pc = "done"

\* The persona requests about session s that a step sent, and those of them
\* the API answered.
PersonaRequests(requests, s) ==
    {i \in DOMAIN requests :
        requests[i].method = "GET" /\ requests[i].session_id = s}
PersonaAnswered(requests, s) ==
    {i \in PersonaRequests(requests, s) : requests[i].ok}

\* C39: in every call of get_persona or send_message and for every session:
\* at most one persona request is answered, and only when no persona was
\* cached for the session, and its answer is then cached; with a persona
\* cached the call sends no persona request and leaves the cached value as it
\* was, get_persona returning it; and the cache changes in no other way.
\* Hence over any sequence of calls at most one persona request per session
\* is answered.
C39_OnePersonaRequestPerSession ==
    [][\A s \in Sessions :
          LET cached == listener.personas_cache[s]
              answered == PersonaAnswered(sdk_eff'.requests, s)
          IN  /\ Cardinality(answered) <= 1
              /\ answered # {}
                    => cached = None /\ listener'.personas_cache[s] # None
              /\ listener'.personas_cache[s] # cached => answered # {}
              /\ cached # None
                    => /\ PersonaRequests(sdk_eff'.requests, s) = {}
                       /\ listener'.personas_cache[s] = cached
                       /\ \A ho \in HttpOutcomes, answer \in Responses :
                             GetPersonaCall(listener, s, ho, answer)
                                = Called(listener, <<>>, <<>>,
                                         Return(cached[1]))]_vars
\* send_message has sent its reply for a session whose persona was cached
\* already: the reply is the only request of the call.
C39_Witness ==
    /\ sdk_eff.op = "send_message"
    /\ sdk_eff.outcome.kind = "return"
    /\ Len(sdk_eff.requests) = 1
    /\ sdk_eff.requests[1].method = "POST"
    /\ listener.personas_cache[sdk_eff.requests[1].session_id] # None

====
